---------------------------- MODULE Spec2Model ----------------------------
(***************************************************************************)
(* Model of rng_go_cli: the random sources (pseudorng, truerng, bbusb),    *)
(* the MPSSE driver of the BitBabbler (OpenBitBabbler, ReadRandom) and the *)
(* interval collectors built on them.                                      *)
(*                                                                         *)
(* Bytes are integers 0..255; a byte slice is a sequence of bytes.  The    *)
(* module holds several specifications over one set of variables; each     *)
(* specification leaves the variables of the other parts at their initial  *)
(* value.  rb is the outcome of a ReadBits call, rr a ReadRandom call in   *)
(* progress, op an OpenBitBabbler call and the session it returns, co a    *)
(* collector loop, fn a call of one of the remaining functions.            *)
(***************************************************************************)
EXTENDS Integers, Sequences, FiniteSets, TLC

VARIABLES rb, rr, op, co, fn

vars == <<rb, rr, op, co, fn>>

(***************************************************************************)
(* Bounds of the model.                                                    *)
(***************************************************************************)
\* largest bit count requested from a source
MaxBits == 10
\* negative bit counts tried: -MinBits .. 0
MinBits == 1
\* the device's maximum packet size (inEp.Desc.MaxPacketSize), scaled down
ModelMaxPacket == 4
\* largest buffer length given to ReadRandom
MaxN == 4
\* most packets the device uses to answer one read command
MaxPkts == 3
\* most reads one collector loop issues
MaxReads == 3
\* most calls of Close the owner of a session makes
MaxCloses == 2
\* most calls of ReadRandom the owner of a session makes
MaxSessionReads == 1
\* most USB device interfaces the system enumerates
MaxIfaces == 3
\* most ReadBits calls made on a pair of generators
MaxCalls == 3
\* largest blockSize asked of truerng.ReadBytes
MaxBlock == 3
\* the size of bufio's buffer (4096 in bufio.NewReader), scaled down
ModelBufSize == 4
\* longest .bin file read, in bytes
MaxFile == 9
\* largest block of readBinFile, in bytes
MaxBlockBytes == 5
\* most samples the collect CLI takes in a run
MaxSamples == 3
\* most bytes in a buffer given to countOnes
MaxOnesBuf == 2
\* most serial ports the system lists
MaxPorts == 2
\* most calls of ReadBitsOnce made one after the other
MaxOnceCalls == 3

\* the two status bytes an FTDI chip puts in front of every packet
StatusHdr == <<50, 96>>

BitsRange == (0 - MinBits)..MaxBits

Min(a, b) == IF a < b THEN a ELSE b

ByteSeqs(k) == [1..k -> {0, 165, 255}]

Zeros(k) == [i \in 1..k |-> 0]

(***************************************************************************)
(* Byte arithmetic as Go computes it on a uint8.                           *)
(***************************************************************************)
Pow2(k) == 2^k

\* bit i (0 = least significant) of byte x
BitOf(x, i) == (x \div Pow2(i)) % 2

\* a & b on bytes
BitAnd8(a, b) == LET t(i) == BitOf(a, i) * BitOf(b, i) * Pow2(i) IN t(0) + t(1) + t(2) + t(3) + t(4) + t(5) + t(6) + t(7)

\* byte(0xFF << k): the shift is done in a byte, high bits fall off
MaskHigh(k) == (255 * Pow2(k)) % 256

\* 0xFF >> k in a byte
MaskLow(k) == 255 \div Pow2(k)

\* number of set bits of a byte (bits.OnesCount8)
OnesCount8(x) == BitOf(x, 0) + BitOf(x, 1) + BitOf(x, 2) + BitOf(x, 3) + BitOf(x, 4) + BitOf(x, 5) + BitOf(x, 6) + BitOf(x, 7)

\* (bitCount + 7) / 8 for bitCount > 0
ByteCount(bitCount) == (bitCount + 7) \div 8

\* extraBits := (8 - (bitCount % 8)) % 8
ExtraBits(bitCount) == (8 - (bitCount % 8)) % 8

\* buf[len(buf)-1] &= mask
MaskLast(buf, mask) == IF Len(buf) = 0 THEN buf ELSE [buf EXCEPT ![Len(buf)] = BitAnd8(buf[Len(buf)], mask)]

\* a slip that keeps the low bits instead of the high ones
ZeroTrailingLowKept(buf, bitCount) == IF ExtraBits(bitCount) # 0 THEN MaskLast(buf, MaskLow(ExtraBits(bitCount))) ELSE buf

\* the trailing-bit zeroing of pseudorng.ReadBits, Generator.ReadBits, truerng.ReadBits
ZeroTrailing(buf, bitCount) == IF ExtraBits(bitCount) # 0 THEN MaskLast(buf, MaskHigh(ExtraBits(bitCount))) ELSE buf

(***************************************************************************)
(* DeviceSession.ReadRandom.                                               *)
(*                                                                         *)
(* A bulk read hands back a chunk: the bytes the transport placed in tmp.  *)
(* A read result is a record [err, data]; err = TRUE is a failed transfer  *)
(* (m = 0).                                                                *)
(***************************************************************************)
\* roundUpToMaxPacket(n, max)
RoundUpToMaxPacket(n, max) == IF max <= 0 THEN n ELSE IF n % max = 0 THEN n ELSE ((n \div max) + 1) * max

\* len(tmp) in ReadRandom
TmpLen(n, maxPacket) == RoundUpToMaxPacket(n, maxPacket) + maxPacket

\* a slip that copies from the start of the stride, status bytes included
CopyIntoWithStatus(buf, got, tmp, offset, usable) == [i \in 1..Len(buf) |-> IF i > got /\ i <= got + usable THEN tmp[offset + (i - got)] ELSE buf[i]]

\* copy(buf[got:got+usable], tmp[offset+2:offset+2+usable]); tmp is 0-based in the source
CopyInto(buf, got, tmp, offset, usable) == [i \in 1..Len(buf) |-> IF i > got /\ i <= got + usable THEN tmp[offset + 2 + (i - got)] ELSE buf[i]]

\* a slip that takes every stride's payload whatever room is left
RECURSIVE StridesUnclamped(_, _, _, _, _, _)
StridesUnclamped(buf, got, tmp, offset, want, maxPacket) ==
    LET m == Len(tmp)
        remain == m - offset
        take == Min(remain, maxPacket)
        usable == take - 2
        buf2 == CopyInto(buf, got, tmp, offset, usable)
    IN  IF offset >= m \/ remain <= 2 THEN [buf |-> buf, got |-> got]
        ELSE IF got + usable = want THEN [buf |-> buf2, got |-> got + usable]
        ELSE StridesUnclamped(buf2, got + usable, tmp, offset + take, want, maxPacket)

\* the inner loop of ReadRandom over one received chunk of m bytes, from offset on
RECURSIVE Strides(_, _, _, _, _, _)
Strides(buf, got, tmp, offset, want, maxPacket) ==
    LET m == Len(tmp)
        remain == m - offset
        take == Min(remain, maxPacket)
        usable == Min(take - 2, want - got)
        buf2 == CopyInto(buf, got, tmp, offset, usable)
    IN  IF offset >= m \/ remain <= 2 THEN [buf |-> buf, got |-> got]
        ELSE IF got + usable = want THEN [buf |-> buf2, got |-> got + usable]
        ELSE Strides(buf2, got + usable, tmp, offset + take, want, maxPacket)

\* one pass of the outer loop body on a successful bulk read of chunk tmp
Extract(buf, got, tmp, want, maxPacket) == IF Len(tmp) <= 2 THEN [buf |-> buf, got |-> got] ELSE Strides(buf, got, tmp, 0, want, maxPacket)

\* the outer loop of ReadRandom over the successive bulk-read results; when the
\* results run out before got = want the call is still waiting ("blocked")
RECURSIVE ReadLoop(_, _, _, _, _, _)
ReadLoop(buf, got, reads, used, want, maxPacket) ==
    IF got >= want THEN [got |-> got, buf |-> buf, err |-> "nil", status |-> "returned", used |-> used]
    ELSE IF reads = <<>> THEN [got |-> got, buf |-> buf, err |-> "nil", status |-> "blocked", used |-> used]
    ELSE IF Head(reads).err THEN [got |-> got, buf |-> buf, err |-> "read", status |-> "returned", used |-> used + 1]
    ELSE LET e == Extract(buf, got, Head(reads).data, want, maxPacket)
         IN  ReadLoop(e.buf, e.got, Tail(reads), used + 1, want, maxPacket)

\* ReadRandom(ctx, buf) with len(buf) = n against a transport whose write
\* succeeds or not and whose bulk reads return reads[1], reads[2], ...
ReadRandom(n, maxPacket, writeOk, reads) ==
    IF n = 0 THEN [got |-> 0, buf |-> <<>>, err |-> "nil", status |-> "returned", used |-> 0]
    ELSE IF ~writeOk THEN [got |-> 0, buf |-> Zeros(n), err |-> "write", status |-> "returned", used |-> 0]
    ELSE ReadLoop(Zeros(n), 0, reads, 0, n, maxPacket)

(***************************************************************************)
(* The device side: payload cut into packets, each behind a status header. *)
(***************************************************************************)
\* the packets carrying payload, each with at most maxPacket - 2 payload bytes
RECURSIVE Packets(_, _)
Packets(payload, maxPacket) ==
    IF payload = <<>> THEN <<>>
    ELSE LET k == Min(Len(payload), maxPacket - 2)
         IN  <<StatusHdr \o SubSeq(payload, 1, k)>> \o Packets(SubSeq(payload, k + 1, Len(payload)), maxPacket)

\* a transport that returns one whole packet per bulk read
AlignedReads(payload, maxPacket) == [i \in 1..Len(Packets(payload, maxPacket)) |-> [err |-> FALSE, data |-> Packets(payload, maxPacket)[i]]]

\* the same, failing at read number j (j = 0: never failing)
ReadsFailingAt(payload, maxPacket, j) == IF j = 0 THEN AlignedReads(payload, maxPacket) ELSE SubSeq(AlignedReads(payload, maxPacket), 1, j - 1) \o <<[err |-> TRUE, data |-> <<>>]>>

(***************************************************************************)
(* truerng.ReadBytes: find the port, open it, read until blockSize bytes   *)
(* have arrived, a read fails or the 10 s deadline has passed.             *)
(***************************************************************************)
\* the read loop: reads[i] is the count port.Read returns (-1: an error); the
\* deadline has passed once the listed reads are used up
RECURSIVE SerialLoop(_, _, _)
SerialLoop(total, reads, blockSize) ==
    IF total >= blockSize THEN [res |-> "ok", total |-> total]
    ELSE IF reads = <<>> THEN [res |-> "timeout", total |-> total]
    ELSE IF Head(reads) < 0 THEN [res |-> "readerr", total |-> total]
    ELSE SerialLoop(total + Min(Head(reads), blockSize - total), Tail(reads), blockSize)

\* ReadBytes(blockSize) on a system where FindPort ends as port ("found",
\* "none", "enumfail"), serial.Open succeeds or not, and the device sends raw
ReadBytes(blockSize, port, openOk, reads, raw) ==
    IF blockSize <= 0 THEN [ok |-> FALSE, data |-> <<>>, enums |-> 0, opens |-> 0, closes |-> 0]
    ELSE IF port # "found" THEN [ok |-> FALSE, data |-> <<>>, enums |-> 1, opens |-> 0, closes |-> 0]
    ELSE IF ~openOk THEN [ok |-> FALSE, data |-> <<>>, enums |-> 1, opens |-> 1, closes |-> 0]
    ELSE IF SerialLoop(0, reads, blockSize).res # "ok" THEN [ok |-> FALSE, data |-> <<>>, enums |-> 1, opens |-> 1, closes |-> 1]
    ELSE [ok |-> TRUE, data |-> SubSeq(raw, 1, blockSize), enums |-> 1, opens |-> 1, closes |-> 1]

(***************************************************************************)
(* The ReadBits of each source, as the outcome of one call: what was asked,*)
(* what the source delivered (raw), what the call returned (ok, out) and   *)
(* the I/O it performed.                                                   *)
(***************************************************************************)
NoIO == [entropy |-> 0, enums |-> 0, serialOpens |-> 0, usbOpens |-> 0, usbCloses |-> 0]

Outcome(impl, bits, raw, ok, out, io) == [impl |-> impl, bits |-> bits, raw |-> raw, ok |-> ok, out |-> out, io |-> io]

\* a slip that reads the entropy source before looking at bitCount
PseudoReadBitsReadFirst(bitCount, entropyOk, raw) ==
    IF ~entropyOk THEN Outcome("pseudo", bitCount, <<>>, FALSE, <<>>, [NoIO EXCEPT !.entropy = 1])
    ELSE IF bitCount <= 0 THEN Outcome("pseudo", bitCount, <<>>, FALSE, <<>>, [NoIO EXCEPT !.entropy = 1])
    ELSE Outcome("pseudo", bitCount, raw, TRUE, ZeroTrailing(raw, bitCount), [NoIO EXCEPT !.entropy = 1])

\* pseudorng.ReadBits(bitCount); crand.Read fills the buffer with raw or fails
PseudoReadBitsCall(bitCount, entropyOk, raw) ==
    IF bitCount <= 0 THEN Outcome("pseudo", bitCount, <<>>, FALSE, <<>>, NoIO)
    ELSE IF ~entropyOk THEN Outcome("pseudo", bitCount, <<>>, FALSE, <<>>, [NoIO EXCEPT !.entropy = 1])
    ELSE Outcome("pseudo", bitCount, raw, TRUE, ZeroTrailing(raw, bitCount), [NoIO EXCEPT !.entropy = 1])

\* Generator.ReadBits(bitCount); raw is what g.r.Intn(256) yields byte by byte
GeneratorReadBitsCall(isNil, bitCount, raw) ==
    IF isNil THEN Outcome("generator", bitCount, <<>>, FALSE, <<>>, NoIO)
    ELSE IF bitCount <= 0 THEN Outcome("generator", bitCount, <<>>, FALSE, <<>>, NoIO)
    ELSE Outcome("generator", bitCount, raw, TRUE, ZeroTrailing(raw, bitCount), NoIO)

\* truerng.ReadBits(bitCount)
TrueRngReadBitsCall(bitCount, port, openOk, reads, raw) ==
    IF bitCount <= 0 THEN Outcome("truerng", bitCount, <<>>, FALSE, <<>>, NoIO)
    ELSE LET r == ReadBytes(ByteCount(bitCount), port, openOk, reads, raw)
             io == [NoIO EXCEPT !.enums = r.enums, !.serialOpens = r.opens]
         IN  IF ~r.ok THEN Outcome("truerng", bitCount, <<>>, FALSE, <<>>, io)
             ELSE Outcome("truerng", bitCount, raw, TRUE, ZeroTrailing(r.data, bitCount), io)

\* the masking of the final byte in bbusb (ReadBitsOnce, StartBitCollector)
\* and in the bitb reader of the collect CLI: buf[len(buf)-1] &= 0xFF >> excess
TrimBits(buf, bits) == IF bits % 8 # 0 /\ Len(buf) > 0 THEN MaskLast(buf, MaskLow(8 - (bits % 8))) ELSE buf

\* buf = buf[:got] when got < numBytes
Truncate(buf, got) == IF got < Len(buf) THEN SubSeq(buf, 1, got) ELSE buf

\* bbusb.ReadBitsOnce(ctx, bits, bitrate, latencyMs)
ReadBitsOnceCall(bits, openOk, writeOk, reads, raw) ==
    IF bits <= 0 THEN Outcome("bbonce", bits, <<>>, FALSE, <<>>, NoIO)
    ELSE IF ~openOk THEN Outcome("bbonce", bits, <<>>, FALSE, <<>>, [NoIO EXCEPT !.usbOpens = 1])
    ELSE LET r == ReadRandom(ByteCount(bits), ModelMaxPacket, writeOk, reads)
             io == [NoIO EXCEPT !.usbOpens = 1, !.usbCloses = 1]
         IN  IF r.err # "nil" THEN Outcome("bbonce", bits, raw, FALSE, <<>>, io)
             ELSE Outcome("bbonce", bits, raw, TRUE, TrimBits(Truncate(r.buf, r.got), bits), io)

\* one cycle of the StartBitCollector goroutine up to the ReadResult it builds
\* (the session is already open; bits > 0 was checked by StartBitCollector)
CollectorReadCall(bits, writeOk, reads, raw) ==
    LET r == ReadRandom(ByteCount(bits), ModelMaxPacket, writeOk, reads)
    IN  IF r.err # "nil" THEN Outcome("bbcollector", bits, raw, FALSE, r.buf, NoIO)
        ELSE Outcome("bbcollector", bits, raw, TRUE, TrimBits(Truncate(r.buf, r.got), bits), NoIO)

\* the readBits closure of the collect CLI for -device bitb (bits > 0 checked by main)
CliBitbReadBitsCall(bitCount, writeOk, reads, raw) ==
    LET r == ReadRandom(ByteCount(bitCount), ModelMaxPacket, writeOk, reads)
        extra == ExtraBits(bitCount)
        buf == Truncate(r.buf, r.got)
    IN  IF r.err # "nil" THEN Outcome("clibitb", bitCount, raw, FALSE, <<>>, NoIO)
        ELSE Outcome("clibitb", bitCount, raw, TRUE, IF extra # 0 /\ Len(buf) > 0 THEN MaskLast(buf, MaskLow(extra)) ELSE buf, NoIO)

\* the inputs a call is tried on
RawFor(bits) == ByteSeqs(IF bits > 0 THEN ByteCount(bits) ELSE 0)

FailPoints(bits) == 0..(IF bits > 0 THEN Len(Packets(Zeros(ByteCount(bits)), ModelMaxPacket)) ELSE 0)

PseudoReadBits == (\E bits \in BitsRange, entropyOk \in BOOLEAN : \E raw \in RawFor(bits) : rb' = PseudoReadBitsCall(bits, entropyOk, raw)) /\ UNCHANGED <<rr, op, co, fn>>

GeneratorReadBits == (\E bits \in BitsRange, isNil \in BOOLEAN : \E raw \in RawFor(bits) : rb' = GeneratorReadBitsCall(isNil, bits, raw)) /\ UNCHANGED <<rr, op, co, fn>>

TrueRngReadBits == (\E bits \in BitsRange, port \in {"found", "none", "enumfail"}, openOk \in BOOLEAN, reads \in {<<>>, <<2>>, <<1, 1>>, <<0, 1, 2>>, <<1, -1>>, <<-1>>} : \E raw \in RawFor(bits) : rb' = TrueRngReadBitsCall(bits, port, openOk, reads, raw)) /\ UNCHANGED <<rr, op, co, fn>>

ReadBitsOnce == (\E bits \in BitsRange, openOk \in BOOLEAN, writeOk \in BOOLEAN : \E raw \in RawFor(bits), j \in FailPoints(bits) : rb' = ReadBitsOnceCall(bits, openOk, writeOk, ReadsFailingAt(raw, ModelMaxPacket, j), raw)) /\ UNCHANGED <<rr, op, co, fn>>

CollectorRead == (\E bits \in 1..MaxBits, writeOk \in BOOLEAN : \E raw \in RawFor(bits), j \in FailPoints(bits) : rb' = CollectorReadCall(bits, writeOk, ReadsFailingAt(raw, ModelMaxPacket, j), raw)) /\ UNCHANGED <<rr, op, co, fn>>

CliBitbReadBits == (\E bits \in 1..MaxBits, writeOk \in BOOLEAN : \E raw \in RawFor(bits), j \in FailPoints(bits) : rb' = CliBitbReadBitsCall(bits, writeOk, ReadsFailingAt(raw, ModelMaxPacket, j), raw)) /\ UNCHANGED <<rr, op, co, fn>>

(***************************************************************************)
(* ReadRandom step by step against a transport that cuts the device's      *)
(* byte stream into bulk-read results of its own choosing.                 *)
(*                                                                         *)
(* rr.payload is what the device clocks in for the command; rr.wire the    *)
(* bytes (status headers and payload) not yet handed to a bulk read;       *)
(* rr.plens the lengths of the packets still on the wire, the first one    *)
(* less what a previous read already took; rr.aligned whether every read   *)
(* so far began and ended on a packet boundary; rr.transfers whether every *)
(* read so far was one USB transfer: whole packets, only the last short.   *)
(***************************************************************************)
\* the payload the device delivers: n bytes, all different
PayloadByte(i) == (37 * i + 11) % 256

\* ways the device may cut n payload bytes into at most k packets of at most
\* cap payload bytes each (0: a status-only packet); the last one carries payload
RECURSIVE SizeSeqs(_, _, _)
SizeSeqs(n, cap, k) ==
    IF n = 0 THEN {<<>>}
    ELSE IF k = 0 THEN {}
    ELSE UNION {{<<c>> \o t : t \in SizeSeqs(n - c, cap, k - 1)} : c \in 0..Min(n, cap)}

\* the wire image of the payload cut by sizes
RECURSIVE WireOf(_, _)
WireOf(payload, sizes) ==
    IF sizes = <<>> THEN <<>>
    ELSE StatusHdr \o SubSeq(payload, 1, Head(sizes)) \o WireOf(SubSeq(payload, Head(sizes) + 1, Len(payload)), Tail(sizes))

\* the packet lengths left after m bytes were taken from the front
RECURSIVE DropBytes(_, _)
DropBytes(plens, m) ==
    IF m = 0 \/ plens = <<>> THEN plens
    ELSE IF m >= Head(plens) THEN DropBytes(Tail(plens), m - Head(plens))
    ELSE <<Head(plens) - m>> \o Tail(plens)

\* m bytes from the front end on a packet boundary
RECURSIVE EndsOnBoundary(_, _)
EndsOnBoundary(plens, m) ==
    IF m = 0 THEN TRUE
    ELSE IF plens = <<>> THEN FALSE
    ELSE IF m >= Head(plens) THEN EndsOnBoundary(Tail(plens), m - Head(plens))
    ELSE FALSE

\* m bytes from the front are whole packets of which only the last may be
\* shorter than maxPacket: what one USB bulk transfer carries, a short packet
\* ending it
RECURSIVE OneTransfer(_, _, _)
OneTransfer(plens, m, maxPacket) ==
    IF m = 0 THEN TRUE
    ELSE IF plens = <<>> \/ m < Head(plens) THEN FALSE
    ELSE IF m = Head(plens) THEN TRUE
    ELSE Head(plens) = maxPacket /\ OneTransfer(Tail(plens), m - Head(plens), maxPacket)

\* mpsseDataByteInPosMSB and mpsseSendImmediate
DataByteInPosMSB == 32

SendImmediate == 135

\* the read command: opcode, byte((n-1) & 0xFF), byte((n-1) >> 8), send immediate
ReadCommand(n) == <<DataByteInPosMSB, (n - 1) % 256, ((n - 1) \div 256) % 256, SendImmediate>>

\* the number of bytes the chip clocks in for a read command: its 16-bit
\* length field, low byte first, plus one
RequestedLen(cmd) == cmd[2] + 256 * cmd[3] + 1

\* ReadRandom is called with a buffer of n >= 1 bytes and writes its command;
\* the chip answers with as many payload bytes as the command asks for
RRWrite(n, sizes, writeOk) ==
    /\ rr.pc = "idle"
    /\ LET payload == [i \in 1..RequestedLen(ReadCommand(n)) |-> PayloadByte(i)]
       IN  rr' = IF writeOk
                 THEN [rr EXCEPT !.pc = "reading", !.n = n, !.cmd = ReadCommand(n), !.payload = payload, !.sizes = sizes, !.wire = WireOf(payload, sizes), !.plens = [i \in 1..Len(sizes) |-> sizes[i] + 2], !.buf = Zeros(n)]
                 ELSE [rr EXCEPT !.pc = "returned", !.n = n, !.buf = Zeros(n), !.err = "write"]
    /\ UNCHANGED <<rb, op, co, fn>>

\* ReadRandom up to the write of its command, for a buffer of n >= 1 bytes
RRCommand(n, writeOk) ==
    /\ rr.pc = "idle"
    /\ rr' = IF writeOk THEN [rr EXCEPT !.pc = "written", !.n = n, !.cmd = ReadCommand(n)] ELSE [rr EXCEPT !.pc = "returned", !.n = n, !.err = "write"]
    /\ UNCHANGED <<rb, op, co, fn>>

\* one pass of the read loop: the bulk read returns the next m bytes of the wire
RRBulkRead(m) ==
    /\ rr.pc = "reading"
    /\ m >= 1 /\ m <= Len(rr.wire) /\ m <= TmpLen(rr.n, ModelMaxPacket)
    /\ LET e == Extract(rr.buf, rr.got, SubSeq(rr.wire, 1, m), rr.n, ModelMaxPacket)
       IN  rr' = [rr EXCEPT !.buf = e.buf, !.got = e.got, !.reads = @ + 1,
                            !.wire = SubSeq(rr.wire, m + 1, Len(rr.wire)),
                            !.plens = DropBytes(rr.plens, m),
                            !.mid = ~EndsOnBoundary(rr.plens, m),
                            !.aligned = rr.aligned /\ ~rr.mid /\ EndsOnBoundary(rr.plens, m),
                            !.transfers = rr.transfers /\ ~rr.mid /\ OneTransfer(rr.plens, m, ModelMaxPacket),
                            !.pc = IF e.got >= rr.n THEN "returned" ELSE "reading"]
    /\ UNCHANGED <<rb, op, co, fn>>

\* a slip that tries the bulk read again after a failure
ReadFailedRetry(r) == [r EXCEPT !.failedReads = @ + 1]

\* if err != nil { return got, err }
ReadFailed(r) == [r EXCEPT !.pc = "returned", !.err = "read", !.failedReads = @ + 1]

\* the bulk read fails: ReadRandom returns got and the error
RRBulkReadFails ==
    /\ rr.pc = "reading"
    /\ rr' = ReadFailed(rr)
    /\ UNCHANGED <<rb, op, co, fn>>

\* the chip has no payload ready and answers with a status-only packet:
\* m <= 2, continue (rr.idle: parity of the number of such reads)
RRStatusOnly ==
    /\ rr.pc = "reading"
    /\ rr' = [rr EXCEPT !.idle = 1 - @]
    /\ UNCHANGED <<rb, op, co, fn>>

\* the context given to ReadRandom is cancelled or its deadline passes (the
\* 3 s timeout of the collect CLI); ReadRandom never looks at its context
RRCtxDone ==
    /\ rr.pc = "reading" /\ ~rr.ctxDone
    /\ rr' = [rr EXCEPT !.ctxDone = TRUE]
    /\ UNCHANGED <<rb, op, co, fn>>

(***************************************************************************)
(* OpenBitBabbler step by step.                                            *)
(*                                                                         *)
(* op.log lists the initialization steps attempted, in order; op.okSteps   *)
(* the steps the chip completed; op.failed the first step on which a       *)
(* transfer failed ("none": no transfer failed so far); op.closes counts   *)
(* the calls of DeviceSession.Close; op.released lists the USB resources   *)
(* released, in order; op.sess and op.err are what the call returned.      *)
(***************************************************************************)
\* attempts of the purge loop: for i := 0; i < 10; i++
PurgeAttempts == 10

\* attempts of the checkSync read loop: for i := 0; i < 10; i++
SyncAttempts == 10

\* the two bogus commands of the sync check and the chip's bad-command marker
CmdAA == 170

CmdAB == 171

BadCmdMarker == 250

\* the steps of the vendor InitMPSSE sequence in the order of the source
StepOrder == <<"reset", "purge", "eventchar", "errorchar", "latency", "flow", "bitmode_reset", "bitmode_mpsse", "sync", "program", "purge2">>

\* if bitrate == 0 { bitrate = 2_500_000 }
EffectiveBitrate(bitrate) == IF bitrate = 0 THEN 2500000 ELSE bitrate

\* if latencyMs == 0 { latencyMs = 1 }
EffectiveLatency(latencyMs) == IF latencyMs = 0 THEN 1 ELSE latencyMs

\* clkDiv := uint16(30000000/bitrate - 1): the unsigned subtraction wraps
\* modulo 2^64 and uint16 keeps the low 16 bits, together a reduction modulo 2^16
ClkDiv(bitrate) == ((30000000 \div bitrate) - 1) % 65536

\* the read loop (of a purge or of a checkSync) that is running or has just
\* ended: the command checked, whether its write succeeded, the bulk reads
\* issued, the last purge result, the sync replies read, how the loop ended
NoLoop == [kind |-> "none", cmd |-> 0, wrote |-> FALSE, reads |-> 0, last |-> "none", seen |-> {}, res |-> "none"]

\* the first transfer failure of the call
NoteFailure(o, step) == IF o.failed = "none" THEN step ELSE o.failed

\* s.Close(); return nil, err
Abort(o, step, err) == [o EXCEPT !.closes = @ + 1, !.released = @ \o <<"intf", "cfg", "dev", "ctx">>, !.pc = "returned", !.sess = FALSE, !.err = err, !.failed = NoteFailure(o, step)]

\* a slip that carries on after a failed control transfer
ControlStepIgnoringError(o, step, ok, next) == [o EXCEPT !.pc = next, !.log = @ \o <<step>>, !.okSteps = IF ok THEN @ \cup {step} ELSE @, !.failed = IF ok THEN @ ELSE NoteFailure(o, step)]

\* if err := s.ftdiXxx(...); err != nil { s.Close(); return nil, err }
ControlStep(o, step, ok, next) == IF ok THEN [o EXCEPT !.pc = next, !.log = @ \o <<step>>, !.okSteps = @ \cup {step}] ELSE Abort([o EXCEPT !.log = @ \o <<step>>], step, "transfer")

\* what is released, in order, on each failure before the session exists
PreludeReleases(outcome) == CASE outcome \in {"openerr", "nodev"} -> <<"ctx">> [] outcome = "cfgerr" -> <<"dev", "ctx">> [] outcome = "intferr" -> <<"cfg", "dev", "ctx">> [] outcome \in {"eperr", "noep"} -> <<"intf", "cfg", "dev", "ctx">> [] OTHER -> <<>>

\* OpenBitBabbler up to the DeviceSession literal: context, device,
\* configuration, interface, endpoints
OBOpenDevice(bitrate, latencyMs, dev, nIn, nOut, epOk) ==
    /\ op.pc = "idle"
    /\ LET outcome == IF dev # "ok" THEN dev ELSE (IF (nIn > 0 \/ nOut > 0) /\ ~epOk THEN "eperr" ELSE IF nIn = 0 \/ nOut = 0 THEN "noep" ELSE "ok")
           o == IF dev = "ok" THEN [op EXCEPT !.nIn = nIn, !.nOut = nOut, !.epRes = outcome] ELSE op
       IN  op' = IF outcome = "ok"
                 THEN [o EXCEPT !.pc = "reset", !.bitrate = EffectiveBitrate(bitrate), !.latency = EffectiveLatency(latencyMs), !.held = {"ctx", "dev", "cfg", "intf"}]
                 ELSE [o EXCEPT !.pc = "returned", !.bitrate = EffectiveBitrate(bitrate), !.latency = EffectiveLatency(latencyMs), !.sess = FALSE, !.err = outcome, !.released = PreludeReleases(outcome)]
    /\ UNCHANGED <<rb, rr, co, fn>>

\* s.ftdiReset()
OBReset(ok) == op.pc = "reset" /\ op' = ControlStep(op, "reset", ok, "purge") /\ UNCHANGED <<rb, rr, co, fn>>

\* a purge that reports a failed bulk read to its caller
PurgeReadReportingError(o, res, step, next) ==
    LET o1 == IF o.i = 0 THEN [o EXCEPT !.log = @ \o <<step>>] ELSE o
    IN  IF res = "err" THEN Abort([o1 EXCEPT !.purgeErrs = @ + 1], step, "transfer")
        ELSE IF res = "more" /\ o.i + 1 < PurgeAttempts THEN [o1 EXCEPT !.i = @ + 1]
        ELSE [o1 EXCEPT !.i = 0, !.pc = next, !.okSteps = @ \cup {step}]

\* a slip that reads on for as long as the device has more (up to twice the budget)
PurgeReadUnbounded(o, res, step, next) ==
    LET o1 == IF o.i = 0 THEN [o EXCEPT !.log = @ \o <<step>>] ELSE o
        l == [NoLoop EXCEPT !.kind = step, !.reads = o.i + 1, !.last = res]
    IN  IF res = "more" /\ o.i + 1 < 2 * PurgeAttempts THEN [o1 EXCEPT !.i = @ + 1, !.loop = [l EXCEPT !.res = "pending"]]
        ELSE [o1 EXCEPT !.i = 0, !.pc = next, !.okSteps = @ \cup {step}, !.loop = [l EXCEPT !.res = "done"]]

\* one bulk read of purgeRead: res is "more" (n > 2), "empty" (n <= 2) or
\* "err" (the transfer failed: n = 0 and the error is dropped); the loop ends
\* on n <= 2 or after PurgeAttempts reads, and purgeRead returns nil
PurgeRead(o, res, step, next) ==
    LET o1 == IF o.i = 0 THEN [o EXCEPT !.log = @ \o <<step>>] ELSE o
        o2 == IF res = "err" THEN [o1 EXCEPT !.purgeErrs = @ + 1, !.failed = NoteFailure(o, step)] ELSE o1
        l == [NoLoop EXCEPT !.kind = step, !.reads = o.i + 1, !.last = res]
    IN  IF res = "more" /\ o.i + 1 < PurgeAttempts THEN [o2 EXCEPT !.i = @ + 1, !.loop = [l EXCEPT !.res = "pending"]]
        ELSE [o2 EXCEPT !.i = 0, !.pc = next, !.okSteps = IF res = "err" THEN @ ELSE @ \cup {step}, !.loop = [l EXCEPT !.res = "done"]]

\* s.purgeRead() after the reset
OBPurge(res) == op.pc = "purge" /\ op' = PurgeRead(op, res, "purge", "eventchar") /\ UNCHANGED <<rb, rr, co, fn>>

\* s.ftdiSetSpecialChars(0, false, 0, false): event character, then error character
OBEventChar(ok) == op.pc = "eventchar" /\ op' = ControlStep([op EXCEPT !.loop = NoLoop], "eventchar", ok, "errorchar") /\ UNCHANGED <<rb, rr, co, fn>>

OBErrorChar(ok) == op.pc = "errorchar" /\ op' = ControlStep(op, "errorchar", ok, "latency") /\ UNCHANGED <<rb, rr, co, fn>>

\* s.ftdiSetLatencyTimer(latencyMs)
OBLatency(ok) == op.pc = "latency" /\ op' = ControlStep(op, "latency", ok, "flow") /\ UNCHANGED <<rb, rr, co, fn>>

\* s.ftdiSetFlowControl(ftdiFlowRtsCts)
OBFlow(ok) == op.pc = "flow" /\ op' = ControlStep(op, "flow", ok, "bitmode_reset") /\ UNCHANGED <<rb, rr, co, fn>>

\* s.ftdiSetBitmode(ftdiBitmodeReset, 0)
OBBitmodeReset(ok) == op.pc = "bitmode_reset" /\ op' = ControlStep(op, "bitmode_reset", ok, "bitmode_mpsse") /\ UNCHANGED <<rb, rr, co, fn>>

\* s.ftdiSetBitmode(ftdiBitmodeMpsse, 0), then the 50 ms sleep and the first checkSync
OBBitmodeMpsse(ok) == op.pc = "bitmode_mpsse" /\ op' = (IF ok THEN [ControlStep(op, "bitmode_mpsse", ok, "syncwrite") EXCEPT !.attempt = 1, !.stage = CmdAA] ELSE ControlStep(op, "bitmode_mpsse", ok, "syncwrite")) /\ UNCHANGED <<rb, rr, co, fn>>

\* a reply to a bulk read of checkSync: n bytes read, buf[2] and buf[3]
Reply(n, b2, b3) == [n |-> n, b2 |-> b2, b3 |-> b3]

\* a slip that takes a reply of any length for the echo
IsEchoAnyLength(reply, cmd) == reply.b2 = BadCmdMarker /\ reply.b3 = cmd

\* n == 4 && buf[2] == 0xFA && buf[3] == cmd
IsEcho(reply, cmd) == reply.n = 4 /\ reply.b2 = BadCmdMarker /\ reply.b3 = cmd

\* a slip that goes on to the parameter write whatever the sync check said
AfterSyncAttemptIgnoringResult(attempt, ok) == "program"

\* a slip that keeps retrying the sync sequence
AfterSyncAttemptRetryTwice(attempt, ok) == IF ok THEN "program" ELSE IF attempt <= 2 THEN "retry" ELSE "fail"

\* ok := AA && AB; if !ok { ok = AA && AB }; if !ok { fail }
AfterSyncAttempt(attempt, ok) == IF ok THEN "program" ELSE IF attempt = 1 THEN "retry" ELSE "fail"

\* one attempt (checkSync(0xAA) && checkSync(0xAB)) has ended with ok
EndSyncAttempt(o, ok) ==
    LET o1 == [o EXCEPT !.syncRes = @ \o <<ok>>, !.i = 0]
        todo == AfterSyncAttempt(o.attempt, ok)
    IN  IF todo = "program" THEN [o1 EXCEPT !.pc = "program", !.okSteps = @ \cup {"sync"}]
        ELSE IF todo = "retry" THEN [o1 EXCEPT !.pc = "syncwrite", !.attempt = @ + 1, !.stage = CmdAA, !.echoes = {}]
        ELSE Abort(o1, "sync", "MPSSE sync failed")

\* checkSync(cmd) has returned ok: && goes on to 0xAB only after 0xAA succeeded
EndCheckSync(o, ok) == IF ok /\ o.stage = CmdAA THEN [o EXCEPT !.pc = "syncwrite", !.stage = CmdAB, !.i = 0, !.echoes = @ \cup {CmdAA}] ELSE EndSyncAttempt([o EXCEPT !.echoes = IF ok THEN @ \cup {o.stage} ELSE @], ok)

\* checkSync: s.outEp.Write([]byte{cmd, mpsseSendImmediate})
OBSyncWrite(ok) ==
    /\ op.pc = "syncwrite"
    /\ LET o1 == [op EXCEPT !.syncCmds = @ \o <<<<op.attempt, op.stage>>>>, !.log = IF op.attempt = 1 /\ op.stage = CmdAA THEN @ \o <<"sync">> ELSE @, !.loop = [NoLoop EXCEPT !.kind = "sync", !.cmd = op.stage, !.wrote = ok, !.res = IF ok THEN "pending" ELSE "fail"]]
       IN  op' = IF ok THEN [o1 EXCEPT !.pc = "syncread", !.i = 0] ELSE EndCheckSync(o1, FALSE)
    /\ UNCHANGED <<rb, rr, co, fn>>

\* checkSync: one pass of the read loop
OBSyncRead(reply) ==
    /\ op.pc = "syncread"
    /\ LET l == [op.loop EXCEPT !.reads = @ + 1, !.seen = @ \cup {reply}]
       IN  op' = IF IsEcho(reply, op.stage) THEN EndCheckSync([op EXCEPT !.loop = [l EXCEPT !.res = "ok"]], TRUE)
                 ELSE IF op.i + 1 < SyncAttempts THEN [op EXCEPT !.i = @ + 1, !.loop = l]
                 ELSE EndCheckSync([op EXCEPT !.loop = [l EXCEPT !.res = "fail"]], FALSE)
    /\ UNCHANGED <<rb, rr, co, fn>>

\* the combined command buffer with the clock divisor is written
OBProgram(ok) ==
    /\ op.pc = "program"
    /\ op' = IF ok THEN [ControlStep([op EXCEPT !.loop = NoLoop], "program", TRUE, "purge2") EXCEPT !.clkDiv = ClkDiv(op.bitrate), !.clkBytes = <<ClkDiv(op.bitrate) % 256, ClkDiv(op.bitrate) \div 256>>] ELSE ControlStep([op EXCEPT !.loop = NoLoop], "program", FALSE, "purge2")
    /\ UNCHANGED <<rb, rr, co, fn>>

\* _ = s.purgeRead(); return s, nil
OBFinalPurge(res) ==
    /\ op.pc = "purge2"
    /\ LET o1 == PurgeRead(op, res, "purge2", "returned")
       IN  op' = IF o1.pc = "returned" THEN [o1 EXCEPT !.sess = TRUE, !.err = "nil"] ELSE o1
    /\ UNCHANGED <<rb, rr, co, fn>>

\* DeviceSession.Close called by the owner of a returned session: each field
\* that is not nil is closed, interface first; no field is set to nil
Close(o) == [o EXCEPT !.userCloses = @ + 1, !.userReleased = @ \o SelectSeq(<<"intf", "cfg", "dev", "ctx">>, LAMBDA f : f \in o.held)]

\* the owner calls sess.Close(), once or again
SessionClose ==
    /\ op.pc = "returned" /\ op.sess /\ op.userCloses < MaxCloses
    /\ op' = Close(op)
    /\ UNCHANGED <<rb, rr, co, fn>>

\* the owner calls sess.ReadRandom: the data-read command is written
SessionRead ==
    /\ op.pc = "returned" /\ op.sess /\ op.readCmds < MaxSessionReads
    /\ op' = [op EXCEPT !.readCmds = @ + 1]
    /\ UNCHANGED <<rb, rr, co, fn>>

(***************************************************************************)
(* The interval collectors: pseudorng.CollectBitsAtInterval, Generator.    *)
(* CollectBitsAtInterval, truerng.CollectBitsAtInterval ("pseudo",         *)
(* "generator", "truerng": the same loop around three ReadBits), the       *)
(* goroutine of bbusb.StartBitCollector ("bbusb") and the loop of the      *)
(* collect CLI ("cli").                                                    *)
(*                                                                         *)
(* co.pc is the loop's position: "check" (the non-blocking select at the   *)
(* top), "reading" (a read is in flight), "send" (bbusb: the select that   *)
(* sends the ReadResult), "wait" (the select on the ticker), "done".       *)
(* co.cancelled is ctx.Done() being closed, co.tick a tick waiting in      *)
(* ticker.C.  co.delivered lists what reached the sink: for each delivery  *)
(* the number of the read it came from and whether it carries an error.    *)
(* co.inFlight counts the reads called and not yet returned,               *)
(* co.readsOnClosed the reads called on a closed session, and              *)
(* co.closedWithRead tells whether the session was closed under a read.    *)
(***************************************************************************)
CallbackKinds == {"pseudo", "generator", "truerng"}

\* the loops that own a DeviceSession: StartBitCollector and the CLI with -device bitb
SessionKinds == {"bbusb", "clibitb"}

\* a slip that forgets the check of the interval
ArgsValidNoInterval(kind, bits, interval, sinkNil) == bits > 0 /\ (kind \in CallbackKinds => ~sinkNil)

\* the argument checks of the constructors: an error before any I/O
ArgsValid(kind, bits, interval, sinkNil) == bits > 0 /\ interval > 0 /\ (kind \in CallbackKinds => ~sinkNil)

\* the collector is called: arguments are checked, StartBitCollector (and the
\* CLI with -device bitb) opens the device, the goroutine or loop is started
\* and the ticker is created
CoStart(kind, bits, interval, sinkNil, openOk) ==
    /\ co.pc = "idle"
    /\ LET c == [co EXCEPT !.kind = kind, !.bits = bits, !.interval = interval, !.sinkNil = sinkNil]
       IN  co' = IF ~ArgsValid(kind, bits, interval, sinkNil) THEN [c EXCEPT !.pc = "done", !.ret = "invalid"]
                 ELSE IF kind \in SessionKinds /\ ~openOk THEN [c EXCEPT !.pc = "done", !.ret = "openerr", !.opens = 1]
                 ELSE [c EXCEPT !.pc = "check", !.started = TRUE, !.opens = IF kind \in SessionKinds THEN 1 ELSE 0, !.sessOpen = (kind \in SessionKinds)]
    /\ UNCHANGED <<rb, rr, op, fn>>

\* the loop returns: the deferred sess.Close() of the StartBitCollector
\* goroutine and of the CLI's main run, and the goroutine closes the channel
CoReturn(c, ret) == [c EXCEPT !.pc = "done", !.ret = ret, !.sessCloses = IF c.sessOpen THEN @ + 1 ELSE @, !.sessOpen = FALSE, !.chanClosed = (c.kind = "bbusb"), !.closedWithRead = @ \/ (c.sessOpen /\ c.inFlight > 0)]

\* a slip that issues the read without looking at the context
CoCheckBlind ==
    /\ co.pc = "check"
    /\ co' = [co EXCEPT !.pc = "reading", !.reads = @ + 1, !.readsAfterError = IF co.readErrs > 0 THEN @ + 1 ELSE @, !.inFlight = @ + 1, !.readsOnClosed = IF co.kind \in SessionKinds /\ ~co.sessOpen THEN @ + 1 ELSE @]
    /\ UNCHANGED <<rb, rr, op, fn>>

\* select { case <-ctx.Done(): return ...; default: } and the call of the read
CoCheck ==
    /\ co.pc = "check"
    /\ co' = IF co.cancelled THEN CoReturn(co, "canceled")
             ELSE [co EXCEPT !.pc = "reading", !.reads = @ + 1, !.readsAfterError = IF co.readErrs > 0 THEN @ + 1 ELSE @, !.inFlight = @ + 1, !.readsOnClosed = IF co.kind \in SessionKinds /\ ~co.sessOpen THEN @ + 1 ELSE @]
    /\ UNCHANGED <<rb, rr, op, fn>>

\* the bytes the source hands over at its read number r
RawOfRead(bits, r) == [i \in 1..ByteCount(bits) |-> PayloadByte((r - 1) * ByteCount(bits) + i)]

\* what the read of the loop returns for them: ReadBits of the package, or the
\* ReadRandom of the session followed by the masking of the final byte
ReadOutput(kind, bits, raw) == IF kind \in SessionKinds THEN TrimBits(raw, bits) ELSE ZeroTrailing(raw, bits)

\* a slip that keeps only the latest batch
DeliverOverwriting(c, isErr, data) == [c EXCEPT !.delivered = <<[read |-> c.reads, err |-> isErr, data |-> data]>>, !.deliveredAfterCancel = IF c.cancelled THEN @ + 1 ELSE @]

\* one more delivery to the sink
Deliver(c, isErr, data) == [c EXCEPT !.delivered = @ \o <<[read |-> c.reads, err |-> isErr, data |-> data]>>, !.deliveredAfterCancel = IF c.cancelled THEN @ + 1 ELSE @]

\* a slip that carries on after a failed read
AfterReadIgnoringError(c, ok, writeOk) == IF ~ok THEN [c EXCEPT !.readErrs = @ + 1, !.pc = "wait"] ELSE [Deliver(c, FALSE, ReadOutput(c.kind, c.bits, RawOfRead(c.bits, c.reads))) EXCEPT !.pc = "wait"]

\* what follows the read in the callback collectors and in the collect CLI:
\* return on error, else hand the batch to the sink (onBatch; the two files,
\* where a failed write ends the process through log.Fatalf)
AfterRead(c, ok, writeOk) ==
    IF ~ok THEN CoReturn([c EXCEPT !.readErrs = @ + 1], "readerr")
    ELSE IF c.kind \in {"cli", "clibitb"} /\ ~writeOk THEN [c EXCEPT !.pc = "done", !.ret = "fatal"]
    ELSE [Deliver(c, FALSE, ReadOutput(c.kind, c.bits, RawOfRead(c.bits, c.reads))) EXCEPT !.pc = "wait"]

\* what follows the read in the StartBitCollector goroutine: the result, error
\* or not, goes to the send (a failed read leaves the buffer as allocated)
AfterReadBbusb(c, ok) == [c EXCEPT !.pc = "send", !.pendingErr = ~ok, !.pendingData = IF ok THEN ReadOutput(c.kind, c.bits, RawOfRead(c.bits, c.reads)) ELSE Zeros(ByteCount(c.bits)), !.readErrs = IF ok THEN @ ELSE @ + 1]

\* the read in flight returns
CoReadReturns(ok, writeOk) ==
    /\ co.pc = "reading"
    /\ co.kind = "generator" => ok
    /\ co' = IF co.kind = "bbusb" THEN AfterReadBbusb([co EXCEPT !.inFlight = @ - 1], ok) ELSE AfterRead([co EXCEPT !.inFlight = @ - 1], ok, writeOk)
    /\ UNCHANGED <<rb, rr, op, fn>>

\* select { case out <- ReadResult{...}: ...}: the consumer takes the result;
\* with ctx.Done() ready as well Go picks either case
CoSend ==
    /\ co.pc = "send"
    /\ co' = [Deliver(co, co.pendingErr, co.pendingData) EXCEPT !.pc = "wait"]
    /\ UNCHANGED <<rb, rr, op, fn>>

\* select { ... case <-ctx.Done(): return } at the send
CoSendCancelled ==
    /\ co.pc = "send" /\ co.cancelled
    /\ co' = CoReturn(co, "canceled")
    /\ UNCHANGED <<rb, rr, op, fn>>

\* a slip that goes on to the next read without a tick
CoWaitNoTick ==
    /\ co.pc = "wait"
    /\ co' = [co EXCEPT !.pc = "check"]
    /\ UNCHANGED <<rb, rr, op, fn>>

\* select { case <-ticker.C: } at the wait; with ctx.Done() ready as well Go
\* picks either case
CoWaitTick ==
    /\ co.pc = "wait" /\ co.tick
    /\ co' = [co EXCEPT !.pc = "check", !.tick = FALSE, !.ticksUsed = @ + 1]
    /\ UNCHANGED <<rb, rr, op, fn>>

\* select { case <-ctx.Done(): return ctx.Err() } at the wait
CoWaitCancelled ==
    /\ co.pc = "wait" /\ co.cancelled
    /\ co' = CoReturn(co, "canceled")
    /\ UNCHANGED <<rb, rr, op, fn>>

\* a slip that closes the session as soon as the context is cancelled
CoCancelClosing ==
    /\ co.pc \notin {"idle", "done"} /\ ~co.cancelled
    /\ co' = [co EXCEPT !.cancelled = TRUE, !.cancelPc = co.pc, !.readsAtCancel = co.reads, !.sessCloses = IF co.sessOpen THEN @ + 1 ELSE @, !.sessOpen = FALSE, !.closedWithRead = @ \/ (co.sessOpen /\ co.inFlight > 0)]
    /\ UNCHANGED <<rb, rr, op, fn>>

\* the caller cancels the context (or the CLI receives the interrupt signal);
\* co.cancelPc keeps where the loop was at that moment
CoCancel ==
    /\ co.pc \notin {"idle", "done"} /\ ~co.cancelled
    /\ co' = [co EXCEPT !.cancelled = TRUE, !.cancelPc = co.pc, !.readsAtCancel = co.reads]
    /\ UNCHANGED <<rb, rr, op, fn>>

\* the ticker fires; ticker.C holds one tick, further ones are dropped
CoTick ==
    /\ co.pc \notin {"idle", "done"} /\ ~co.tick /\ co.reads < MaxReads
    /\ co' = [co EXCEPT !.tick = TRUE, !.ticksFired = @ + 1]
    /\ UNCHANGED <<rb, rr, op, fn>>

(***************************************************************************)
(* The functions checked call by call: fn holds the call, its arguments    *)
(* and what it returned.                                                   *)
(***************************************************************************)
(***************************************************************************)
(* One pass of ReadRandom's read loop on any chunk the transport may       *)
(* return: the buffer has n bytes of which got are placed (all 1), the     *)
(* chunk has len bytes, all different (100 + their index).                 *)
(***************************************************************************)
ExtractCall(n, got, len, maxPacket) ==
    /\ fn.call = "none"
    /\ len <= TmpLen(n, maxPacket)
    /\ LET buf == [i \in 1..n |-> IF i <= got THEN 1 ELSE 0]
           tmp == [i \in 1..len |-> 100 + i]
       IN  fn' = [call |-> "extract", n |-> n, got |-> got, buf |-> buf, tmp |-> tmp, maxPacket |-> maxPacket, res |-> Extract(buf, got, tmp, n, maxPacket)]
    /\ UNCHANGED <<rb, rr, op, co>>

(***************************************************************************)
(* IsBitBabblerConnected over the device interfaces the system lists.  An  *)
(* interface is "hw" (its hardware IDs carry the VID and PID), "path" (its *)
(* device path does), "other" (neither), "nosize" (the size query answers  *)
(* 0: skipped), "detailerr" (the detail query fails) or "enumerr" (the     *)
(* enumeration call fails at its index with an error other than            *)
(* ERROR_NO_MORE_ITEMS).                                                   *)
(***************************************************************************)
\* the loop of listUsbDevicesMatchingVIDPID from index on; a device is kept as
\* the index it was found at
RECURSIVE EnumLoop(_, _, _)
EnumLoop(ifaces, index, results) ==
    IF index > Len(ifaces) THEN [err |-> "nil", devices |-> results]
    ELSE IF ifaces[index] = "enumerr" THEN [err |-> "enum", devices |-> <<>>]
    ELSE IF ifaces[index] = "nosize" THEN EnumLoop(ifaces, index + 1, results)
    ELSE IF ifaces[index] = "detailerr" THEN [err |-> "detail", devices |-> <<>>]
    ELSE IF ifaces[index] \in {"hw", "path"} THEN EnumLoop(ifaces, index + 1, Append(results, index))
    ELSE EnumLoop(ifaces, index + 1, results)

\* listUsbDevicesMatchingVIDPID(0x0403, 0x7840)
ListUsbDevicesMatchingVIDPID(getOk, ifaces) == IF ~getOk THEN [err |-> "classdevs", devices |-> <<>>] ELSE EnumLoop(ifaces, 1, <<>>)

\* a slip that reports an empty list as an error
IsBitBabblerConnectedStrict(getOk, ifaces) ==
    LET l == ListUsbDevicesMatchingVIDPID(getOk, ifaces)
    IN  IF l.err # "nil" THEN [ok |-> FALSE, devices |-> <<>>, err |-> l.err]
        ELSE IF l.devices = <<>> THEN [ok |-> FALSE, devices |-> <<>>, err |-> "notfound"]
        ELSE [ok |-> TRUE, devices |-> l.devices, err |-> "nil"]

\* IsBitBabblerConnected()
IsBitBabblerConnected(getOk, ifaces) ==
    LET l == ListUsbDevicesMatchingVIDPID(getOk, ifaces)
    IN  IF l.err # "nil" THEN [ok |-> FALSE, devices |-> <<>>, err |-> l.err]
        ELSE [ok |-> Len(l.devices) > 0, devices |-> l.devices, err |-> "nil"]

EnumCall(getOk, ifaces) ==
    /\ fn' = [call |-> "IsBitBabblerConnected", getOk |-> getOk, ifaces |-> ifaces, res |-> IsBitBabblerConnected(getOk, ifaces)]
    /\ UNCHANGED <<rb, rr, op, co>>

(***************************************************************************)
(* File names: naming.BuildBinCSVPaths builds them, the analysis tool's    *)
(* findBitCount and findInterval read them back.  A string is a sequence   *)
(* of one-character strings.                                               *)
(***************************************************************************)
DigitChars == <<"0", "1", "2", "3", "4", "5", "6", "7", "8", "9">>

IsDigit(c) == \E d \in 1..Len(DigitChars) : DigitChars[d] = c

\* %d of a number that is not negative
RECURSIVE Itoa(_)
Itoa(n) == IF n < Len(DigitChars) THEN <<DigitChars[n + 1]>> ELSE Itoa(n \div Len(DigitChars)) \o <<DigitChars[(n % Len(DigitChars)) + 1]>>

\* strconv.Atoi of a run of digits
RECURSIVE Atoi(_)
Atoi(ds) == IF Len(ds) = 0 THEN 0 ELSE Atoi(SubSeq(ds, 1, Len(ds) - 1)) * Len(DigitChars) + (CHOOSE d \in 0..(Len(DigitChars) - 1) : DigitChars[d + 1] = ds[Len(ds)])

\* n in decimal, zero-padded to w digits
RECURSIVE Pad(_, _)
Pad(n, w) == IF Len(Itoa(n)) >= w THEN Itoa(n) ELSE <<"0">> \o Pad(n, w - 1)

DeviceTrueRNG == <<"t", "r", "n", "g">>
DeviceBitBabbler == <<"b", "i", "t", "b">>
DevicePseudo == <<"p", "s", "e", "u", "d", "o">>

\* Device.Validate()
Validate(d) == d = DeviceTrueRNG \/ d = DeviceBitBabbler \/ d = DevicePseudo

\* BuildBaseName(now, device, bits, intervalSeconds)
BuildBaseName(now, device, bits, intervalSeconds) ==
    IF ~Validate(device) THEN [err |-> "device", name |-> <<>>]
    ELSE IF bits <= 0 THEN [err |-> "bits", name |-> <<>>]
    ELSE IF intervalSeconds <= 0 THEN [err |-> "interval", name |-> <<>>]
    ELSE [err |-> "nil", name |-> Pad(now.year, 4) \o Pad(now.month, 2) \o Pad(now.day, 2) \o <<"T">> \o Pad(now.hour, 2) \o Pad(now.min, 2) \o Pad(now.sec, 2) \o <<"_">> \o device \o <<"_", "s">> \o Itoa(bits) \o <<"_", "i">> \o Itoa(intervalSeconds)]

\* a slip that keeps the dot of the extension and adds its own
WithExtKeepingDot(base, ext) == IF ext = <<>> THEN base ELSE base \o <<".">> \o ext

\* WithExt(base, ext)
WithExt(base, ext) ==
    IF ext = <<>> THEN base
    ELSE base \o <<".">> \o (IF ext[1] = "." THEN SubSeq(ext, 2, Len(ext)) ELSE ext)

\* JoinDir(dir, name)
\* (filepath.Join of a dir with no ".", "..", doubled or trailing separator)
JoinDir(dir, name) == IF dir = <<>> THEN name ELSE dir \o <<"/">> \o name

\* BuildBinCSVNames(now, device, bits, intervalSeconds)
BuildBinCSVNames(now, device, bits, intervalSeconds) ==
    LET b == BuildBaseName(now, device, bits, intervalSeconds)
    IN  IF b.err # "nil" THEN [err |-> b.err, bin |-> <<>>, csv |-> <<>>]
        ELSE [err |-> "nil", bin |-> WithExt(b.name, <<".", "b", "i", "n">>), csv |-> WithExt(b.name, <<".", "c", "s", "v">>)]

\* BuildBinCSVPaths(dir, now, device, bits, intervalSeconds)
BuildBinCSVPaths(dir, now, device, bits, intervalSeconds) ==
    LET n == BuildBinCSVNames(now, device, bits, intervalSeconds)
    IN  IF n.err # "nil" THEN [err |-> n.err, bin |-> <<>>, csv |-> <<>>]
        ELSE [err |-> "nil", bin |-> JoinDir(dir, n.bin), csv |-> JoinDir(dir, n.csv)]

\* the index of the last digit of the longest run of digits that starts at i
\* (i - 1 when s has no digit at i): what a greedy \d+ takes
RECURSIVE DigitRunEnd(_, _)
DigitRunEnd(s, i) == IF i <= Len(s) /\ IsDigit(s[i]) THEN DigitRunEnd(s, i + 1) ELSE i - 1

\* s has the characters of lit from index i on
HasAt(s, i, lit) == i >= 1 /\ i + Len(lit) - 1 <= Len(s) /\ SubSeq(s, i, i + Len(lit) - 1) = lit

\* the leftmost index of ps (FindStringSubmatch returns the leftmost match)
Leftmost(ps) == CHOOSE p \in ps : \A q \in ps : p <= q

\* findInterval(filePath)
FindInterval(filePath) ==
    LET ps == {p \in 1..Len(filePath) : HasAt(filePath, p, <<"_", "i">>) /\ DigitRunEnd(filePath, p + 2) >= p + 2}
    IN  IF ps = {} THEN [err |-> "notfound", val |-> 0]
        ELSE [err |-> "nil", val |-> Atoi(SubSeq(filePath, Leftmost(ps) + 2, DigitRunEnd(filePath, Leftmost(ps) + 2)))]

\* findBitCount(filePath)
FindBitCount(filePath) ==
    LET ps == {p \in 1..Len(filePath) : HasAt(filePath, p, <<"_", "s">>) /\ DigitRunEnd(filePath, p + 2) >= p + 2 /\ HasAt(filePath, DigitRunEnd(filePath, p + 2) + 1, <<"_", "i">>)}
    IN  IF ps = {} THEN [err |-> "notfound", val |-> 0]
        ELSE [err |-> "nil", val |-> Atoi(SubSeq(filePath, Leftmost(ps) + 2, DigitRunEnd(filePath, Leftmost(ps) + 2)))]

\* the collector builds its names and its two paths, the analysis tool reads
\* each path back
NamesCall(dir, now, device, bits, intervalSeconds) ==
    /\ fn.call = "none"
    /\ LET paths == BuildBinCSVPaths(dir, now, device, bits, intervalSeconds)
       IN  fn' = [call |-> "names", dir |-> dir, now |-> now, device |-> device, bits |-> bits, interval |-> intervalSeconds, paths |-> paths,
                  base |-> BuildBaseName(now, device, bits, intervalSeconds), names |-> BuildBinCSVNames(now, device, bits, intervalSeconds),
                  binBits |-> FindBitCount(paths.bin), binInterval |-> FindInterval(paths.bin),
                  csvBits |-> FindBitCount(paths.csv), csvInterval |-> FindInterval(paths.csv)]
    /\ UNCHANGED <<rb, rr, op, co>>

(***************************************************************************)
(* truerng.ReadBytes, one pass of its read loop at a time.  Time is in     *)
(* milliseconds from the start of the call.                                *)
(***************************************************************************)
\* port.SetReadTimeout(1000 * time.Millisecond)
ReadTimeoutMs == 1000

\* deadline := time.Now().Add(10 * time.Second)
OverallDeadlineMs == 10000

\* time.Sleep(5 * time.Millisecond)
IdleSleepMs == 5

\* a slip that gives up at the deadline itself
AfterOrAt(now, deadline) == now >= deadline

\* time.Now().After(deadline)
After(now, deadline) == now > deadline

\* ReadBytes(blockSize) up to the read loop: argument check, FindPort,
\* serial.Open, port settings, buffer and deadline
RBStart(blockSize, port, openOk) ==
    /\ fn.call = "none"
    /\ fn' = IF blockSize <= 0 THEN [call |-> "ReadBytes", pc |-> "returned", blockSize |-> blockSize, total |-> 0, now |-> 0, deadline |-> 0, opens |-> 0, closes |-> 0, res |-> "badsize", outLen |-> 0]
             ELSE IF port # "found" THEN [call |-> "ReadBytes", pc |-> "returned", blockSize |-> blockSize, total |-> 0, now |-> 0, deadline |-> 0, opens |-> 0, closes |-> 0, res |-> "notfound", outLen |-> 0]
             ELSE IF ~openOk THEN [call |-> "ReadBytes", pc |-> "returned", blockSize |-> blockSize, total |-> 0, now |-> 0, deadline |-> 0, opens |-> 0, closes |-> 0, res |-> "openerr", outLen |-> 0]
             ELSE [call |-> "ReadBytes", pc |-> "loop", blockSize |-> blockSize, total |-> 0, now |-> 0, deadline |-> 0 + OverallDeadlineMs, opens |-> 1, closes |-> 0, res |-> "none", outLen |-> 0]
    /\ UNCHANGED <<rb, rr, op, co>>

\* one pass of the loop: the deadline check, a read that takes d and brings n
\* bytes or fails, the sleep after an empty read; the deferred port.Close()
\* runs on each return
RBStep(d, readOk, n) ==
    /\ fn.call = "ReadBytes" /\ fn.pc = "loop"
    /\ n <= fn.blockSize - fn.total
    /\ fn' = IF After(fn.now, fn.deadline) THEN [fn EXCEPT !.pc = "returned", !.res = "timeout", !.closes = @ + 1]
             ELSE IF ~readOk THEN [fn EXCEPT !.pc = "returned", !.res = "readerr", !.now = @ + d, !.closes = @ + 1]
             ELSE IF fn.total + n < fn.blockSize THEN [fn EXCEPT !.total = @ + n, !.now = @ + d + (IF n = 0 THEN IdleSleepMs ELSE 0)]
             ELSE [fn EXCEPT !.pc = "returned", !.res = "ok", !.total = @ + n, !.now = @ + d, !.outLen = fn.blockSize, !.closes = @ + 1]
    /\ UNCHANGED <<rb, rr, op, co>>

(***************************************************************************)
(* One sample of the collect CLI: the batch read from the device goes to   *)
(* the .bin file, its ones count to the .csv file.                         *)
(***************************************************************************)
\* total of bits.OnesCount8 over buf[0 .. k-1]
RECURSIVE OnesOfPrefix(_, _)
OnesOfPrefix(buf, k) == IF k <= 0 THEN 0 ELSE OnesOfPrefix(buf, k - 1) + OnesCount8(buf[k])

\* countOnes(buf, bitCount)
CountOnes(buf, bitCount) ==
    IF bitCount <= 0 \/ Len(buf) = 0 THEN 0
    ELSE LET bytesUsed == Min(ByteCount(bitCount), Len(buf))
             used == bitCount - (bytesUsed - 1) * 8
             usedBitsInLast == IF used <= 0 THEN 8 ELSE used
             mask == MaskHigh(8 - usedBitsInLast)
         IN  OnesOfPrefix(buf, bytesUsed - 1) + OnesCount8(BitAnd8(buf[bytesUsed], mask))

\* the readBits closure of the device, for a device that delivers raw
CliReadBits(dev, bitCount, raw) ==
    IF dev = "pseudo" THEN PseudoReadBitsCall(bitCount, TRUE, raw).out
    ELSE IF dev = "trng" THEN TrueRngReadBitsCall(bitCount, "found", TRUE, <<Len(raw)>>, raw).out
    ELSE CliBitbReadBitsCall(bitCount, TRUE, AlignedReads(raw, ModelMaxPacket), raw).out

\* one pass of the CLI's loop with both writes succeeding: batch to the .bin
\* file, ones to the .csv line
CliSample(dev, bitCount, raw) ==
    /\ fn' = [call |-> "sample", dev |-> dev, bits |-> bitCount, raw |-> raw, bin |-> CliReadBits(dev, bitCount, raw), ones |-> CountOnes(CliReadBits(dev, bitCount, raw), bitCount)]
    /\ UNCHANGED <<rb, rr, op, co>>

(***************************************************************************)
(* readBinFile of the analysis tool, one pass of its loop at a time.  The  *)
(* file's i-th byte is PayloadByte(i); fn.pos is how far the bufio.Reader  *)
(* has read the file, fn.buffered what it holds and has not handed out.    *)
(***************************************************************************)
\* reader.Read(p) of a bufio.Reader over a regular file, for len(p) = plen > 0:
\* with nothing buffered, a p at least as large as the buffer is read into
\* directly, otherwise the buffer is filled by one read of the file; then as
\* much of the buffer as p holds is copied.  A failed read of the file gives
\* n = 0 and the error.
BufioRead(file, pos, buffered, plen, bufSize, readOk) ==
    LET rest == SubSeq(file, pos + 1, Len(file))
        direct == SubSeq(rest, 1, Min(plen, Len(rest)))
        filled == SubSeq(rest, 1, Min(bufSize, Len(rest)))
    IN  IF buffered # <<>> THEN [n |-> Min(plen, Len(buffered)), data |-> SubSeq(buffered, 1, Min(plen, Len(buffered))), pos |-> pos, buffered |-> SubSeq(buffered, Min(plen, Len(buffered)) + 1, Len(buffered)), err |-> "nil"]
        ELSE IF ~readOk THEN [n |-> 0, data |-> <<>>, pos |-> pos, buffered |-> <<>>, err |-> "read"]
        ELSE IF rest = <<>> THEN [n |-> 0, data |-> <<>>, pos |-> pos, buffered |-> <<>>, err |-> "EOF"]
        ELSE IF plen >= bufSize THEN [n |-> Len(direct), data |-> direct, pos |-> pos + Len(direct), buffered |-> <<>>, err |-> "nil"]
        ELSE [n |-> Min(plen, Len(filled)), data |-> SubSeq(filled, 1, Min(plen, Len(filled))), pos |-> pos + Len(filled), buffered |-> SubSeq(filled, Min(plen, Len(filled)) + 1, Len(filled)), err |-> "nil"]

\* readBinFile(filePath, blockSize) up to its loop: the checks of the block
\* size, os.Open, the reader and the buffer of bytesPerBlock bytes
ReadBinOpen(fileLen, blockSize, openOk) ==
    /\ fn.call = "none"
    /\ LET c == [call |-> "readBinFile", pc |-> "returned", file |-> [i \in 1..fileLen |-> PayloadByte(i)], blockSize |-> blockSize, bytesPerBlock |-> blockSize \div 8, pos |-> 0, buffered |-> <<>>, block |-> 1, rows |-> <<>>, err |-> "nil", readFailed |-> FALSE, shortReads |-> 0]
       IN  fn' = IF blockSize % 8 # 0 THEN [c EXCEPT !.err = "notmultiple"]
                 ELSE IF blockSize \div 8 <= 0 THEN [c EXCEPT !.err = "invalid"]
                 ELSE IF ~openOk THEN [c EXCEPT !.err = "open"]
                 ELSE [c EXCEPT !.pc = "loop"]
    /\ UNCHANGED <<rb, rr, op, co>>

\* one pass of the loop: reader.Read(buf); n == 0 ends the loop; else a row
\* with the ones of the n bytes read is appended, and n < bytesPerBlock ends
\* the loop (fn.shortReads counts the reads that came short before the
\* file's end)
ReadBinPass(readOk) ==
    /\ fn.call = "readBinFile" /\ fn.pc = "loop"
    /\ LET rd == BufioRead(fn.file, fn.pos, fn.buffered, fn.bytesPerBlock, ModelBufSize, readOk)
       IN  fn' = IF rd.n = 0 THEN [fn EXCEPT !.pc = "returned", !.readFailed = (rd.err = "read")]
                 ELSE [fn EXCEPT !.pos = rd.pos, !.buffered = rd.buffered, !.block = @ + 1,
                                 !.rows = Append(@, [Category |-> Itoa(fn.block), Ones |-> OnesOfPrefix(rd.data, rd.n)]),
                                 !.shortReads = IF rd.n < fn.bytesPerBlock /\ (rd.pos < Len(fn.file) \/ rd.buffered # <<>>) THEN @ + 1 ELSE @,
                                 !.pc = IF rd.n < fn.bytesPerBlock THEN "returned" ELSE "loop"]
    /\ UNCHANGED <<rb, rr, op, co>>

(***************************************************************************)
(* The collect CLI and its two files, one cycle of its loop at a time.     *)
(* A file is a bufio.Writer over an os.File: w.file is what has reached    *)
(* the file (bytes of .bin, lines of .csv), w.err whether the writer       *)
(* carries the error of an earlier failed write.                           *)
(***************************************************************************)
\* w.Write of len bytes followed by _ = w.Flush(): a writer that carries an
\* error refuses the write; more than the buffer holds is written to the
\* file at once, so that a failure is the error of Write; anything else goes
\* to the buffer and reaches the file in Flush, whose error is dropped by the
\* caller and kept by the writer
WriteThenFlush(w, len, bufSize, diskOk) ==
    IF w.err THEN [w |-> w, writeErr |-> TRUE]
    ELSE IF len > bufSize THEN (IF diskOk THEN [w |-> [w EXCEPT !.file = @ + len], writeErr |-> FALSE] ELSE [w |-> [w EXCEPT !.err = TRUE], writeErr |-> TRUE])
    ELSE [w |-> (IF diskOk THEN [w EXCEPT !.file = @ + len] ELSE [w EXCEPT !.err = TRUE]), writeErr |-> FALSE]

\* main up to its loop, for flags that pass the checks and files that open
CliOpen(bitCount) ==
    /\ fn.call = "none"
    /\ fn' = [call |-> "collect", pc |-> "loop", bitCount |-> bitCount, byteCount |-> ByteCount(bitCount), sampleNum |-> 0, printed |-> 0, bin |-> [file |-> 0, err |-> FALSE], csv |-> [file |-> 0, err |-> FALSE], ret |-> "none", binAtLine |-> <<>>, filesAtRead |-> <<>>, diskFailed |-> FALSE]
    /\ UNCHANGED <<rb, rr, op, co>>

\* one cycle of the loop, entered with the context not cancelled: the read,
\* the batch to .bin, the line to .csv, the progress line, the wait for the
\* tick or the cancellation (fn.filesAtRead: what the files held when each
\* read was issued; fn.binAtLine: what .bin held when each line was written)
CliCycle(readOk, binDiskOk, csvDiskOk, cancelled) ==
    /\ fn.call = "collect" /\ fn.pc = "loop" /\ fn.sampleNum < MaxSamples
    /\ LET r == [fn EXCEPT !.filesAtRead = Append(@, <<fn.bin.file, fn.csv.file>>)]
           b == WriteThenFlush(fn.bin, fn.byteCount, ModelBufSize, binDiskOk)
           c == WriteThenFlush(fn.csv, 1, ModelBufSize, csvDiskOk)
       IN  fn' = IF ~readOk THEN [r EXCEPT !.pc = "done", !.ret = "readerr"]
                 ELSE IF b.writeErr THEN [r EXCEPT !.pc = "done", !.ret = "fatal", !.bin = b.w, !.diskFailed = TRUE]
                 ELSE IF c.writeErr THEN [r EXCEPT !.pc = "done", !.ret = "fatal", !.bin = b.w, !.csv = c.w, !.sampleNum = @ + 1, !.diskFailed = TRUE]
                 ELSE [r EXCEPT !.bin = b.w, !.csv = c.w, !.sampleNum = @ + 1, !.printed = fn.sampleNum + 1, !.binAtLine = Append(@, b.w.file),
                                !.diskFailed = @ \/ b.w.err \/ c.w.err,
                                !.pc = IF cancelled THEN "done" ELSE "loop", !.ret = IF cancelled THEN "canceled" ELSE "none"]
    /\ UNCHANGED <<rb, rr, op, co>>

(***************************************************************************)
(* countOnes called on any buffer with any bit count.                      *)
(***************************************************************************)
\* countOnes(buf, bitCount); the shift count 8 - usedBitsInLast is a signed
\* int, and Go panics on a negative one
CountOnesCall(buf, bitCount) ==
    /\ fn.call = "none"
    /\ LET bytesUsed == Min(ByteCount(bitCount), Len(buf))
           panics == bitCount > 0 /\ Len(buf) > 0 /\ 8 - (bitCount - (bytesUsed - 1) * 8) < 0
       IN  fn' = [call |-> "countOnes", buf |-> buf, bitCount |-> bitCount, panics |-> panics, ones |-> IF panics THEN 0 ELSE CountOnes(buf, bitCount)]
    /\ UNCHANGED <<rb, rr, op, co>>

(***************************************************************************)
(* truerng.Detect and truerng.FindPort on one list of serial ports.        *)
(***************************************************************************)
DeviceNamePrefix == <<"T", "r", "u", "e", "R", "N", "G">>

\* hasTrueRNGPrefix(p)
HasTrueRNGPrefix(p) ==
    /\ ~p.isNil
    /\ \/ p.IsUSB /\ HasAt(p.Product, 1, DeviceNamePrefix)
       \/ p.IsUSB /\ HasAt(p.SerialNumber, 1, DeviceNamePrefix)
       \/ HasAt(p.Name, 1, DeviceNamePrefix)
       \/ p.VID = "16D0" /\ p.PID \in {"0AA0", "0AA2", "0AA4"}

\* Detect(), for the list GetDetailedPortsList returns (or its failure)
Detect(enumOk, ports) ==
    IF ~enumOk THEN [present |-> FALSE, err |-> "enum"]
    ELSE [present |-> (\E i \in 1..Len(ports) : HasTrueRNGPrefix(ports[i])), err |-> "nil"]

\* FindPort(): the name of the first port with the prefix and a name
FindPort(enumOk, ports) ==
    LET named == {i \in 1..Len(ports) : HasTrueRNGPrefix(ports[i]) /\ ports[i].Name # <<>>}
    IN  IF ~enumOk THEN [name |-> <<>>, err |-> "enum"]
        ELSE IF named = {} THEN [name |-> <<>>, err |-> "notfound"]
        ELSE [name |-> ports[Leftmost(named)].Name, err |-> "nil"]

\* both functions are called on the same list
PortsCall(enumOk, ports) ==
    /\ fn.call = "none"
    /\ fn' = [call |-> "ports", ports |-> ports, detect |-> Detect(enumOk, ports), find |-> FindPort(enumOk, ports)]
    /\ UNCHANGED <<rb, rr, op, co>>

(***************************************************************************)
(* bbusb.ReadBitsOnce called again and again.  fn.open counts the sessions *)
(* open at the moment, fn.reads the calls of ReadRandom of the call under  *)
(* way, fn.rets what the calls so far returned.                            *)
(***************************************************************************)
\* ReadBitsOnce up to its read: the check of bits, OpenBitBabbler (which
\* leaves no session behind when it fails), the deferred Close, the buffer
\* and the call of sess.ReadRandom
OnceCall(bits, openOk) ==
    /\ fn.call \in {"none", "ReadBitsOnce"}
    /\ fn.call = "ReadBitsOnce" => (fn.pc = "returned" /\ Len(fn.rets) < MaxOnceCalls)
    /\ LET c == IF fn.call = "none" THEN [call |-> "ReadBitsOnce", pc |-> "returned", bits |-> bits, open |-> 0, opens |-> 0, closes |-> 0, reads |-> 0, rets |-> <<>>, closedInRead |-> FALSE]
                ELSE [fn EXCEPT !.bits = bits, !.reads = 0]
       IN  fn' = IF bits <= 0 THEN [c EXCEPT !.rets = Append(@, "invalid")]
                 ELSE IF ~openOk THEN [c EXCEPT !.rets = Append(@, "openerr")]
                 ELSE [c EXCEPT !.pc = "reading", !.open = @ + 1, !.opens = @ + 1, !.reads = 1]
    /\ UNCHANGED <<rb, rr, op, co>>

\* a slip that closes the session on the success path only
OnceReadReturnsLeaking(ok) ==
    /\ fn.call = "ReadBitsOnce" /\ fn.pc = "reading"
    /\ fn' = IF ok THEN [fn EXCEPT !.pc = "returned", !.open = @ - 1, !.closes = @ + 1, !.rets = Append(@, "ok")]
             ELSE [fn EXCEPT !.pc = "returned", !.rets = Append(@, "readerr")]
    /\ UNCHANGED <<rb, rr, op, co>>

\* sess.ReadRandom returns; ReadBitsOnce returns the error or the masked
\* buffer, and the deferred sess.Close() runs
OnceReadReturns(ok) ==
    /\ fn.call = "ReadBitsOnce" /\ fn.pc = "reading"
    /\ fn' = [fn EXCEPT !.pc = "returned", !.open = @ - 1, !.closes = @ + 1, !.rets = Append(@, IF ok THEN "ok" ELSE "readerr")]
    /\ UNCHANGED <<rb, rr, op, co>>

(***************************************************************************)
(* Two Generators made from one seed and read side by side.  The source of *)
(* math/rand is a deterministic function of its state; it is stood for by  *)
(* a small generator of that kind.                                         *)
(***************************************************************************)
\* the state of the source after one more Intn; byte(g.r.Intn(256)) is that state
RandNext(state) == (5 * state + 3) % 256

\* the state after k calls of Intn
RECURSIVE RandAfter(_, _)
RandAfter(state, k) == IF k = 0 THEN state ELSE RandAfter(RandNext(state), k - 1)

\* a slip that fills the buffer from the system's entropy
GenBytesFromEntropy(state, k, ent) == SubSeq(ent, 1, k)

\* the loop buf[i] = byte(g.r.Intn(256)) for k bytes
GenBytes(state, k, ent) == [i \in 1..k |-> RandNext(RandAfter(state, i - 1))]

\* g.ReadBits(bitCount) on the generator g: the result and the generator
\* afterwards (ent is what crypto/rand would hand out at that moment)
GenReadBits(g, bitCount, ent) ==
    LET draws == ~g.isNil /\ bitCount > 0
        c == GeneratorReadBitsCall(g.isNil, bitCount, IF draws THEN GenBytes(g.state, ByteCount(bitCount), ent) ELSE <<>>)
    IN  [ok |-> c.ok, out |-> c.out, g |-> [g EXCEPT !.state = IF draws THEN RandAfter(@, ByteCount(bitCount)) ELSE @]]

\* NewGenerator(seed): seed 0 is replaced by 8 bytes of crypto/rand (drawn),
\* and when that read fails no generator is returned
NewGenerator(seed, drawOk, drawn) ==
    IF seed = 0 /\ ~drawOk THEN [isNil |-> TRUE, state |-> 0]
    ELSE [isNil |-> FALSE, state |-> (IF seed = 0 THEN drawn ELSE seed) % 256]

\* two generators are made from the same seed
GenNewPair(seed, drawOk, d1, d2) ==
    /\ fn.call = "none"
    /\ fn' = [call |-> "gen", seed |-> seed, g1 |-> NewGenerator(seed, drawOk, d1), g2 |-> NewGenerator(seed, TRUE, d2), calls |-> 0, r1 |-> [ok |-> TRUE, out |-> <<>>], r2 |-> [ok |-> TRUE, out |-> <<>>]]
    /\ UNCHANGED <<rb, rr, op, co>>

\* both are asked for the same number of bits
GenReadBoth(bitCount, e1, e2) ==
    /\ fn.call = "gen" /\ fn.calls < MaxCalls
    /\ LET a == GenReadBits(fn.g1, bitCount, e1)
           b == GenReadBits(fn.g2, bitCount, e2)
       IN  fn' = [fn EXCEPT !.g1 = a.g, !.g2 = b.g, !.calls = @ + 1, !.r1 = [ok |-> a.ok, out |-> a.out], !.r2 = [ok |-> b.ok, out |-> b.out]]
    /\ UNCHANGED <<rb, rr, op, co>>

(***************************************************************************)
(* The specifications.                                                     *)
(***************************************************************************)
\* nothing has been called yet
Init ==
    /\ rb = Outcome("none", 1, <<>>, FALSE, <<>>, NoIO)
    /\ rr = [pc |-> "idle", n |-> 0, cmd |-> <<>>, payload |-> <<>>, sizes |-> <<>>, wire |-> <<>>, plens |-> <<>>, mid |-> FALSE, aligned |-> TRUE, transfers |-> TRUE, buf |-> <<>>, got |-> 0, err |-> "nil", reads |-> 0, failedReads |-> 0, idle |-> 0, ctxDone |-> FALSE]
    /\ op = [pc |-> "idle", bitrate |-> 0, latency |-> 0, log |-> <<>>, okSteps |-> {}, failed |-> "none", purgeErrs |-> 0, i |-> 0, attempt |-> 0, stage |-> 0, syncCmds |-> <<>>, syncRes |-> <<>>, echoes |-> {}, clkDiv |-> 0 - 1, clkBytes |-> <<>>, closes |-> 0, released |-> <<>>, sess |-> FALSE, err |-> "nil", nIn |-> 0, nOut |-> 0, epRes |-> "none", held |-> {}, userCloses |-> 0, userReleased |-> <<>>, loop |-> NoLoop, readCmds |-> 0]
    /\ co = [kind |-> "none", pc |-> "idle", bits |-> 0, interval |-> 0, sinkNil |-> FALSE, opens |-> 0, started |-> FALSE, cancelled |-> FALSE, cancelPc |-> "none", readsAtCancel |-> 0, tick |-> FALSE, ticksFired |-> 0, reads |-> 0, readErrs |-> 0, readsAfterError |-> 0, pendingErr |-> FALSE, pendingData |-> <<>>, delivered |-> <<>>, deliveredAfterCancel |-> 0, ticksUsed |-> 0, ret |-> "none", sessOpen |-> FALSE, sessCloses |-> 0, chanClosed |-> FALSE, inFlight |-> 0, readsOnClosed |-> 0, closedWithRead |-> FALSE]
    /\ fn = [call |-> "none"]

NextBits == PseudoReadBits \/ GeneratorReadBits \/ TrueRngReadBits \/ ReadBitsOnce \/ CollectorRead \/ CliBitbReadBits

SpecBits == Init /\ [][NextBits]_vars

NextRead == (\E n \in 1..MaxN, writeOk \in BOOLEAN : \E sizes \in SizeSeqs(RequestedLen(ReadCommand(n)), ModelMaxPacket - 2, MaxPkts) : RRWrite(n, sizes, writeOk)) \/ (\E m \in 1..(MaxPkts * ModelMaxPacket) : RRBulkRead(m)) \/ RRBulkReadFails \/ RRStatusOnly \/ RRCtxDone

SpecRead == Init /\ [][NextRead]_vars

\* the read loop keeps running: it issues its next bulk read, whose result is
\* the transport's choice
SpecReadLive == Init /\ [][NextRead]_vars /\ WF_vars((\E m \in 1..(MaxPkts * ModelMaxPacket) : RRBulkRead(m)) \/ RRBulkReadFails \/ RRStatusOnly)

NextCmd == \E n \in ((1..40) \cup (250..260) \cup (65520..65560)), writeOk \in BOOLEAN : RRCommand(n, writeOk)

SpecCmd == Init /\ [][NextCmd]_vars

\* the loop runs while got < want; maxPacket is above the 2 status bytes
NextExtract == \E n \in 1..MaxN, maxPacket \in (ModelMaxPacket - 1)..ModelMaxPacket : \E got \in 0..(n - 1), len \in 0..(2 * MaxN + 2 * ModelMaxPacket) : ExtractCall(n, got, len, maxPacket)

SpecExtract == Init /\ [][NextExtract]_vars

NextBin == (\E fileLen \in 0..MaxFile, blockSize \in {0 - 8, 0, 4, 12} \cup {8 * b : b \in 1..MaxBlockBytes}, openOk \in BOOLEAN : ReadBinOpen(fileLen, blockSize, openOk)) \/ (\E readOk \in BOOLEAN : ReadBinPass(readOk))

SpecBin == Init /\ [][NextBin]_vars

NextCli == (\E bitCount \in {4, 12, 16, 36, 40} : CliOpen(bitCount)) \/ (\E readOk \in BOOLEAN, binDiskOk \in BOOLEAN, csvDiskOk \in BOOLEAN, cancelled \in BOOLEAN : CliCycle(readOk, binDiskOk, csvDiskOk, cancelled))

SpecCli == Init /\ [][NextCli]_vars

NextOnes == \E bitCount \in (0 - 1)..(8 * MaxOnesBuf + 2), k \in 0..MaxOnesBuf : \E buf \in ByteSeqs(k) : CountOnesCall(buf, bitCount)

SpecOnes == Init /\ [][NextOnes]_vars

\* the ports a system may list: a nil entry, and every mix of the fields the
\* two functions look at
NextPorts ==
    \E enumOk \in BOOLEAN, k \in 0..MaxPorts :
        \E ports \in [1..k -> {[isNil |-> TRUE, IsUSB |-> FALSE, Product |-> <<>>, SerialNumber |-> <<>>, Name |-> <<>>, VID |-> "", PID |-> ""]} \cup
                               [isNil : {FALSE}, IsUSB : BOOLEAN, Product : {<<>>, DeviceNamePrefix \o <<"3">>}, SerialNumber : {<<>>, <<"T", "r", "u", "e">>},
                                Name : {<<>>, <<"C", "O", "M", "5">>, DeviceNamePrefix}, VID : {"", "16D0"}, PID : {"0AA2", "6001"}]] :
            PortsCall(enumOk, ports)

SpecPorts == Init /\ [][NextPorts]_vars

NextOnce == (\E bits \in {0, 12}, openOk \in BOOLEAN : OnceCall(bits, openOk)) \/ (\E ok \in BOOLEAN : OnceReadReturns(ok))

SpecOnce == Init /\ [][NextOnce]_vars

NextEnum == \E getOk \in BOOLEAN, ifaces \in UNION {[1..k -> {"hw", "path", "other", "nosize", "detailerr", "enumerr"}] : k \in 0..MaxIfaces} : EnumCall(getOk, ifaces)

SpecEnum == Init /\ [][NextEnum]_vars

NextCsv == \E dev \in {"pseudo", "trng", "bitb"}, bits \in 1..MaxBits : \E raw \in RawFor(bits) : CliSample(dev, bits, raw)

SpecCsv == Init /\ [][NextCsv]_vars

NextGen == (\E seed \in {0, 1, 7}, drawOk \in BOOLEAN, d1 \in {3, 9}, d2 \in {3, 9} : GenNewPair(seed, drawOk, d1, d2)) \/ (\E bits \in BitsRange, e1 \in {<<0, 0>>, <<255, 255>>}, e2 \in {<<0, 0>>, <<255, 255>>} : GenReadBoth(bits, e1, e2))

SpecGen == Init /\ [][NextGen]_vars

\* output directories: none, plain ones, and ones whose own name looks like a
\* part of the convention; devices: the three allowed ones and one that is not
NextNames ==
    \E dir \in {<<>>, <<"d", "a", "t", "a">>, <<"/", "v", "a", "r", "/", "r", "n", "g">>, <<"o", "u", "t", "_", "i", "7">>, <<"r", "_", "s", "5", "_", "i", "2">>},
       now \in {[year |-> 2025, month |-> 1, day |-> 2, hour |-> 3, min |-> 4, sec |-> 5], [year |-> 2026, month |-> 11, day |-> 30, hour |-> 23, min |-> 59, sec |-> 0]},
       device \in {DeviceTrueRNG, DeviceBitBabbler, DevicePseudo, <<"u", "s", "b">>},
       bits \in {0 - 1, 0, 1, 8, 12, 2048, 100000}, intervalSeconds \in {0 - 1, 0, 1, 10, 60} :
        NamesCall(dir, now, device, bits, intervalSeconds)

SpecNames == Init /\ [][NextNames]_vars

NextSerial == (\E blockSize \in (0 - 1)..MaxBlock, port \in {"found", "none"}, openOk \in BOOLEAN : RBStart(blockSize, port, openOk)) \/ (\E d \in {0, ReadTimeoutMs}, readOk \in BOOLEAN, n \in 0..MaxBlock : RBStep(d, readOk, n))

\* the loop goes on: the program is never stopped between two passes
SpecSerialLive == Init /\ [][NextSerial]_vars /\ WF_vars(\E d \in {0, ReadTimeoutMs}, readOk \in BOOLEAN, n \in 0..MaxBlock : RBStep(d, readOk, n))

NextOpen == (\E bitrate \in {0, 400, 2500000, 7000000, 8000000}, latencyMs \in {0, 1}, dev \in {"ok", "openerr", "nodev", "cfgerr", "intferr"}, nIn \in 0..2, nOut \in 0..2, epOk \in BOOLEAN : OBOpenDevice(bitrate, latencyMs, dev, nIn, nOut, epOk)) \/ (\E ok \in BOOLEAN : OBReset(ok) \/ OBEventChar(ok) \/ OBErrorChar(ok) \/ OBLatency(ok) \/ OBFlow(ok) \/ OBBitmodeReset(ok) \/ OBBitmodeMpsse(ok) \/ OBSyncWrite(ok) \/ OBProgram(ok)) \/ (\E res \in {"more", "empty", "err"} : OBPurge(res) \/ OBFinalPurge(res)) \/ (\E reply \in {Reply(4, BadCmdMarker, CmdAA), Reply(4, BadCmdMarker, CmdAB), Reply(4, 0, CmdAA), Reply(2, 0, 0), Reply(5, BadCmdMarker, CmdAB), Reply(0, 0, 0)} : OBSyncRead(reply)) \/ SessionClose \/ SessionRead

SpecOpen == Init /\ [][NextOpen]_vars

\* a purge that has started issues its next bulk read
SpecOpenLive == Init /\ [][NextOpen]_vars /\ WF_vars(\E res \in {"more", "empty", "err"} : OBPurge(res) \/ OBFinalPurge(res))

NextCollect == (\E kind \in {"pseudo", "generator", "truerng", "bbusb", "cli", "clibitb"}, bits \in {0 - 1, 0, 12, 16}, interval \in {0 - 1, 0, 1}, sinkNil \in BOOLEAN, openOk \in BOOLEAN : CoStart(kind, bits, interval, sinkNil, openOk)) \/ CoCheck \/ (\E ok \in BOOLEAN, writeOk \in BOOLEAN : CoReadReturns(ok, writeOk)) \/ CoSend \/ CoSendCancelled \/ CoWaitTick \/ CoWaitCancelled \/ CoCancel \/ CoTick

SpecCollect == Init /\ [][NextCollect]_vars

\* the loop keeps running: a goroutine that can take its next step takes it;
\* nothing is assumed of the source, the consumer, the ticker or the caller
SpecCollectLive == Init /\ [][NextCollect]_vars /\ WF_vars(CoCheck) /\ WF_vars(CoWaitTick \/ CoWaitCancelled) /\ WF_vars(CoSendCancelled)

\* the same with a source whose every read returns
SpecCollectReadsReturn == SpecCollectLive /\ WF_vars(\E ok \in BOOLEAN, writeOk \in BOOLEAN : CoReadReturns(ok, writeOk))

(***************************************************************************)
(* Properties of the ReadBits calls (checked under SpecBits).              *)
(***************************************************************************)
\* ceil(bits / 8), stated without the code's (bits + 7) / 8
CeilBytes(bits) == CHOOSE k \in 0..bits : 8 * k >= bits /\ 8 * (k - 1) < bits

\* the low k bits of the last byte of buf are zero
LowBitsZero(buf, k) == Len(buf) > 0 /\ buf[Len(buf)] % Pow2(k) = 0

\* the high k bits of the last byte of buf are those of the last byte of raw
HighBitsKept(buf, raw, k) == Len(buf) > 0 /\ Len(raw) > 0 /\ buf[Len(buf)] \div Pow2(8 - k) = raw[Len(raw)] \div Pow2(8 - k)

SoftSources == {"pseudo", "generator", "truerng"}

MpsseSources == {"bbonce", "bbcollector", "clibitb"}

\* C1: for bits > 0 a successful ReadBits of pseudorng, Generator or truerng
\* returns exactly ceil(bits/8) bytes, and when bits mod 8 # 0 the low
\* (8 - bits mod 8) bits of the last byte are zero.
C1_PaddingContract == (rb.impl \in SoftSources /\ rb.bits > 0 /\ rb.ok) => (Len(rb.out) = CeilBytes(rb.bits) /\ (rb.bits % 8 # 0 => LowBitsZero(rb.out, 8 - (rb.bits % 8))))

\* a truerng read of a bit count that is no multiple of 8 whose last raw byte
\* had its low bits set, so that the masking changed it
C1_Witness == rb.impl = "truerng" /\ rb.ok /\ rb.bits = 9 /\ rb.raw[2] = 255 /\ rb.out[2] = 128

\* C2: for bits > 0 with bits mod 8 # 0, a batch of the MPSSE-backed path
\* (ReadBitsOnce, StartBitCollector's ReadResult, the bitb reader of the
\* collect CLI) has the low (8 - bits mod 8) bits of its final byte zero and
\* the high (bits mod 8) bits as the device delivered them.
C2_MpssePadding == (rb.impl \in MpsseSources /\ rb.bits > 0 /\ rb.bits % 8 # 0 /\ rb.ok) => (LowBitsZero(rb.out, 8 - (rb.bits % 8)) /\ HighBitsKept(rb.out, rb.raw, rb.bits % 8))

\* C3: for bits <= 0 every ReadBits fails before any I/O: no entropy read, no
\* port enumeration, no serial open, no USB open.
C3_NoIOOnBadBits == (rb.impl \in {"pseudo", "generator", "truerng", "bbonce"} /\ rb.bits <= 0) => (~rb.ok /\ rb.io = NoIO /\ rb.out = <<>>)

\* ReadBitsOnce asked for 0 bits has returned an error
C3_Witness == rb.impl = "bbonce" /\ rb.bits = 0 /\ ~rb.ok /\ rb.io.usbOpens = 0

(***************************************************************************)
(* Properties of ReadRandom (checked under SpecRead).                      *)
(***************************************************************************)
\* the device fills every packet but the last: maxPacket - 2 payload bytes each
FullPackets == rr.sizes = [i \in 1..Len(Packets(rr.payload, ModelMaxPacket)) |-> Len(Packets(rr.payload, ModelMaxPacket)[i]) - 2]

\* C4: against a transport that returns the payload in packets, each behind
\* a 2-byte status header, ReadRandom fills the buffer with exactly the first
\* n payload bytes, however the transport splits the stream across bulk reads
\* (stated for a device that sends full packets, so that only the split varies).
C4_ExtractionAnyChunking == (rr.pc = "returned" /\ rr.err = "nil" /\ FullPackets) => (rr.got = rr.n /\ rr.buf = rr.payload)

(***************************************************************************)
(* Properties of OpenBitBabbler (checked under SpecOpen).                  *)
(***************************************************************************)
IsPrefix(s, t) == Len(s) <= Len(t) /\ SubSeq(t, 1, Len(s)) = s

Returned == op.pc = "returned"

\* the call ended as an abort: one Close, no session, an error
AbortedOnce == op.closes = 1 /\ ~op.sess /\ op.err # "nil"

\* C5: the initialization steps run in the order of StepOrder; when the step
\* at position k fails no later step is attempted, Close is invoked exactly
\* once and the call returns a nil session with an error.
C5_InitOrderAbort == IsPrefix(op.log, StepOrder) /\ (op.failed # "none" => (op.log[Len(op.log)] = op.failed /\ (Returned => AbortedOnce)))

\* the same for the steps other than the purges: the control transfers, the
\* sync check and the parameter write
InitOrderAbortOtherSteps == IsPrefix(op.log, StepOrder) /\ ((op.failed # "none" /\ op.purgeErrs = 0) => (op.log[Len(op.log)] = op.failed /\ Returned /\ AbortedOnce))

\* a control transfer has failed and the call has aborted
InitOrderAbortWitness == Returned /\ op.failed = "latency" /\ op.log = SubSeq(StepOrder, 1, 5) /\ AbortedOnce

\* C6: a failed bulk read during a purge (after the reset, or after the
\* parameter write) aborts OpenBitBabbler and releases the session.
C6_PurgeFailureAborts == (op.purgeErrs > 0 /\ Returned) => AbortedOnce

\* the commands written during sync attempt a
AttemptCmds(a) == SelectSeq(op.syncCmds, LAMBDA e : e[1] = a)

\* C7: the two-stage sync check is retried exactly once: every attempt starts
\* with 0xAA and writes 0xAB only after it; a second attempt is made exactly
\* when the first failed; there is never a third; two failed attempts end in
\* the sync error with the session closed; a failed first and a successful
\* second attempt lead on to the parameter write and, when that write
\* succeeds, to a returned session.
C7_SyncRetriedOnce ==
    /\ op.attempt <= 2 /\ Len(op.syncRes) <= 2
    /\ \A a \in 1..3 : AttemptCmds(a) \in {<<>>, <<<<a, CmdAA>>>>, <<<<a, CmdAA>>, <<a, CmdAB>>>>}
    /\ AttemptCmds(3) = <<>>
    /\ (op.attempt = 2 <=> (Len(op.syncRes) >= 1 /\ ~op.syncRes[1]))
    /\ (AttemptCmds(2) # <<>> => ~op.syncRes[1])
    /\ (op.syncRes = <<FALSE, FALSE>> => (Returned /\ op.err = "MPSSE sync failed" /\ AbortedOnce))
    /\ (op.err = "MPSSE sync failed" => op.syncRes = <<FALSE, FALSE>>)
    /\ (op.syncRes \in {<<TRUE>>, <<FALSE, TRUE>>} => (op.echoes = {CmdAA, CmdAB} /\ "sync" \in op.okSteps /\ op.pc \in {"program", "purge2", "returned"}))
    /\ ((op.syncRes = <<FALSE, TRUE>> /\ Returned /\ "program" \in op.okSteps) => (op.sess /\ op.err = "nil" /\ op.closes = 0))

\* the first sync attempt failed, the second succeeded, a session was returned
C7_Witness == Returned /\ op.sess /\ op.syncRes = <<FALSE, TRUE>> /\ Len(op.syncCmds) >= 3

\* what a fully initialized session rests on: every control transfer, the
\* sync check and the parameter write
RequiredSteps == {"reset", "eventchar", "errorchar", "latency", "flow", "bitmode_reset", "bitmode_mpsse", "sync", "program"}

C9_ReadErrorHalts == co.readsAfterError = 0 /\ ((co.readErrs > 0 /\ co.kind # "bbusb") => (co.pc = "done" /\ co.ret = "readerr"))

\* the same for the collectors other than StartBitCollector
ReadErrorHaltsCallbackAndCli == (co.kind # "bbusb") => (co.readsAfterError = 0 /\ (co.readErrs > 0 => (co.pc = "done" /\ co.ret = "readerr" /\ co.readErrs = 1)))

\* C10: in every interval collector, once cancellation has been requested no
\* further delivery reaches the sink, whatever the loop was doing then.
C10_NoDeliveryAfterCancel == co.deliveredAfterCancel = 0

\* what the code does ensure: after cancellation at most the batch of the read
\* already issued is delivered
AtMostOneDeliveryAfterCancel == co.deliveredAfterCancel <= 1

\* C11: in every interval collector, when cancellation is requested while the
\* loop is in the wait between two reads, the loop terminates and no further
\* read is issued, also when the wait is resolved by a tick that was ready
\* together with the cancellation.
C11_CancelInWaitStops == [](co.cancelPc = "wait" => (co.reads = co.readsAtCancel /\ co.pc \in {"wait", "check", "done"})) /\ ((co.cancelPc = "wait") ~> (co.pc = "done" /\ co.ret = "canceled"))

\* cancelled in the wait, the select took the tick, the check at the top of
\* the loop ended the run: as many ticks used as reads issued
C11_Witness == co.cancelPc = "wait" /\ co.pc = "done" /\ co.ret = "canceled" /\ co.ticksUsed = co.reads /\ co.reads = 2

\* the batch the sink must have received for read number i
ExpectedBatch(i) == [read |-> i, err |-> FALSE, data |-> ReadOutput(co.kind, co.bits, RawOfRead(co.bits, i))]

\* C12: in the callback collectors and the collect CLI the sink holds, at any
\* moment, the batches of the reads that returned, one per read, in the order
\* of the reads, each of ceil(bits/8) bytes with the content the read
\* returned; a run ended by cancellation after k reads has delivered exactly k
\* batches, using k - 1 or k ticks.
C12_ExactlyKBatches ==
    (co.kind \in CallbackKinds \cup {"cli", "clibitb"}) =>
        /\ \A i \in 1..Len(co.delivered) : co.delivered[i] = ExpectedBatch(i) /\ Len(co.delivered[i].data) = CeilBytes(co.bits)
        /\ Len(co.delivered) \in {co.reads - 1, co.reads}
        /\ (co.pc \in {"wait", "check"} => Len(co.delivered) = co.reads)
        /\ ((co.pc = "done" /\ co.ret = "canceled") => (Len(co.delivered) = co.reads /\ co.ticksUsed \in {co.reads - 1, co.reads}))

\* a TrueRNG collection of 12 bits cancelled after three cycles
C12_Witness == co.kind = "truerng" /\ co.bits = 12 /\ co.pc = "done" /\ co.ret = "canceled" /\ Len(co.delivered) = 3 /\ co.delivered[3].data = <<PayloadByte(5), 224>>

\* what StartBitCollector adds: a result may carry an error, and the result of
\* the read in flight is dropped when the send is cancelled
ChannelDeliveriesInOrder == (co.kind = "bbusb") => (Len(co.delivered) \in {co.reads - 1, co.reads} /\ \A i \in 1..Len(co.delivered) : co.delivered[i].read = i)

\* C13: CollectBitsAtInterval (pseudorng, Generator, truerng) called with
\* bits <= 0, interval <= 0 or a nil onBatch, and StartBitCollector called with
\* bits <= 0 or interval <= 0, return the error before any I/O: no read, no
\* delivery, no device opened, no loop or goroutine started.
C13_ConstructorRejects == (co.pc # "idle" /\ co.kind \in CallbackKinds \cup {"bbusb"} /\ (co.bits <= 0 \/ co.interval <= 0 \/ (co.kind \in CallbackKinds /\ co.sinkNil))) => (co.pc = "done" /\ co.ret = "invalid" /\ co.reads = 0 /\ co.delivered = <<>> /\ co.opens = 0 /\ ~co.started /\ ~co.sessOpen /\ co.sessCloses = 0)

\* StartBitCollector was called with a valid bit count and a zero interval
C13_Witness == co.kind = "bbusb" /\ co.bits = 16 /\ co.interval = 0 /\ co.pc = "done" /\ co.ret = "invalid" /\ co.opens = 0

\* C15: once the loop has opened its DeviceSession, every way the loop ends
\* has run Close on it (stated here for the StartBitCollector goroutine and
\* the collect CLI with -device bitb).
C15_CloseOnEveryExit == (co.pc = "done" /\ co.kind \in SessionKinds /\ co.started) => (co.sessCloses = 1 /\ ~co.sessOpen)

\* the same without the exits through log.Fatalf
CloseOnEveryReturn == (co.pc = "done" /\ co.kind \in SessionKinds /\ co.started /\ co.ret # "fatal") => (co.sessCloses = 1 /\ ~co.sessOpen)


(***************************************************************************)
(* Properties of the session and of its parameters (checked under SpecOpen)*)
(***************************************************************************)
\* how often resource r was released by the owner's calls of Close
ReleaseCount(r) == Cardinality({i \in 1..Len(op.userReleased) : op.userReleased[i] = r})

\* C14: after any number of calls of Close on a session (at least one), each
\* of interface, configuration, device handle and context has been released
\* exactly once, the first Close releasing them in that order.
C14_CloseIdempotent == op.userCloses >= 1 => (SubSeq(op.userReleased, 1, 4) = <<"intf", "cfg", "dev", "ctx">> /\ \A r \in {"intf", "cfg", "dev", "ctx"} : ReleaseCount(r) = 1)

\* what the code does ensure: every Close releases the four in that order
EveryCloseReleasesInOrder == \A k \in 1..op.userCloses : SubSeq(op.userReleased, 4 * k - 3, 4 * k) = <<"intf", "cfg", "dev", "ctx">>

\* C16: with the interface claimed, the endpoints are resolved only when the
\* interface exposes exactly one bulk-IN and exactly one bulk-OUT endpoint; in
\* every other case (none, or more than one, in a direction) OpenBitBabbler
\* returns an endpoint-resolution error and no session.
C16_ExactlyOneBulkPair == (op.epRes # "none") => ((op.epRes = "ok" => (op.nIn = 1 /\ op.nOut = 1)) /\ (op.epRes # "ok" => (Returned /\ ~op.sess /\ op.err = op.epRes)))

\* what the code does ensure: an error when a direction has no bulk endpoint
MissingEndpointFails == (op.epRes # "none" /\ (op.nIn = 0 \/ op.nOut = 0)) => (op.epRes # "ok" /\ Returned /\ ~op.sess /\ op.err = op.epRes)

\* a / b rounded to the nearest integer
RoundDiv(a, b) == (2 * a + b) \div (2 * b)

\* C17: the divisor written to the chip, low byte first, is
\* round(30000000 / bitrate) - 1 for the bitrate in effect (0 replaced by
\* 2500000), with nothing cut off or wrapped.
C17_ClockDivisor == (op.clkBytes # <<>>) => (op.clkBytes[1] + 256 * op.clkBytes[2] = RoundDiv(30000000, op.bitrate) - 1)

\* what the code does ensure: the low 16 bits of the truncated quotient less one
ClockDivisorTruncated == (op.clkBytes # <<>>) => (op.clkBytes[1] + 256 * op.clkBytes[2] = ((30000000 \div op.bitrate) - 1) % 65536 /\ op.clkBytes[1] \in 0..255 /\ op.clkBytes[2] \in 0..255)


(***************************************************************************)
(* Properties of the read command (checked under SpecCmd) and of the result *)
(* of ReadRandom (checked under SpecRead and SpecReadLive).                 *)
(***************************************************************************)
\* C18: for a buffer of n >= 1 bytes the command written is the read opcode,
\* the two bytes of n - 1 (low, high) and the immediate-flush marker, so the
\* chip is asked for exactly the n bytes ReadRandom goes on to wait for.
C18_LengthField == (rr.cmd # <<>>) => (Len(rr.cmd) = 4 /\ rr.cmd[1] = DataByteInPosMSB /\ rr.cmd[4] = SendImmediate /\ rr.cmd[2] \in 0..255 /\ rr.cmd[3] \in 0..255 /\ RequestedLen(rr.cmd) = rr.n)

\* what the code does ensure: the field holds n - 1 modulo 2^16
LengthFieldModulo == (rr.cmd # <<>>) => (RequestedLen(rr.cmd) = ((rr.n - 1) % 65536) + 1)

\* the number of bytes of the buffer that were written (no payload byte of the
\* model and no status byte is zero)
PlacedCount(buf) == Cardinality({i \in 1..Len(buf) : buf[i] # 0})

\* C19: ReadRandom returns a count below len(buf) only with an error; a failed
\* write returns the write error with count 0 and no bulk read; a failed bulk
\* read returns the read error at once, with the count of the bytes placed so
\* far, and is not tried again; without an error the count is len(buf).
C19_ShortCountOnlyWithError ==
    /\ rr.pc = "returned" => ((rr.got < rr.n => rr.err # "nil") /\ (rr.err = "nil" => rr.got = rr.n) /\ rr.got = PlacedCount(rr.buf) /\ rr.got <= rr.n)
    /\ rr.err = "write" => (rr.pc = "returned" /\ rr.got = 0 /\ rr.reads = 0 /\ rr.failedReads = 0 /\ rr.cmd = <<>>)
    /\ rr.failedReads > 0 => (rr.pc = "returned" /\ rr.err = "read" /\ rr.failedReads = 1)
    /\ rr.err = "read" => rr.failedReads = 1

\* a bulk read failed after two payload bytes of three were placed
C19_Witness == rr.pc = "returned" /\ rr.err = "read" /\ rr.n = 3 /\ rr.got = 2 /\ rr.buf = <<PayloadByte(1), PayloadByte(2), 0>>

\* C20: a ReadRandom whose context is cancelled, or whose deadline passes,
\* while it waits for payload returns to its caller.
C20_ContextEndsRead == rr.ctxDone ~> (rr.pc = "returned")


(***************************************************************************)
(* Further properties of the interval collectors (checked under            *)
(* SpecCollect and SpecCollectLive).                                       *)
(***************************************************************************)
\* C21: after the context given to StartBitCollector is cancelled the channel
\* is eventually closed and the session is eventually closed; the channel is
\* closed only by the goroutine, when it ends, and so at most once.
C21_ChannelClosedAfterCancel == [](co.chanClosed => (co.kind = "bbusb" /\ co.started /\ co.pc = "done")) /\ ((co.kind = "bbusb" /\ co.cancelled) ~> (co.chanClosed /\ ~co.sessOpen /\ co.sessCloses = 1))

\* the same where it holds: with a device whose every read returns (checked
\* under SpecCollectReadsReturn)
ChannelClosedWhenReadsReturn == (co.kind = "bbusb" /\ co.cancelled) ~> (co.chanClosed /\ ~co.sessOpen /\ co.sessCloses = 1)

\* C30: every collector issues its first read at once, before any wait, and
\* takes exactly one tick from the ticker between two consecutive reads: the
\* reads issued never exceed the ticks taken plus one, nor the ticks fired
\* plus one.
C30_OneTickPerRead ==
    /\ co.reads <= co.ticksUsed + 1
    /\ co.ticksUsed <= co.ticksFired
    /\ co.pc \in {"reading", "send"} => co.reads = co.ticksUsed + 1
    /\ co.pc = "wait" => co.reads = co.ticksUsed + 1
    /\ (co.pc = "check" /\ ~co.cancelled) => co.reads = co.ticksUsed

\* the third read is in flight after two ticks
C30_Witness == co.pc = "reading" /\ co.reads = 3 /\ co.ticksFired = 2 /\ co.ticksUsed = 2


(***************************************************************************)
(* Properties of the purge and of the sync check (checked under SpecOpen   *)
(* and SpecOpenLive).                                                      *)
(***************************************************************************)
\* C22: a purge issues at most 10 bulk reads and goes on to the next read only
\* after one that returned more than 2 bytes; it ends at the first read of 2
\* bytes or fewer (a failed read returns none) or with the tenth read, and so
\* always ends.
C22_PurgeBounded ==
    /\ [](op.loop.kind \in {"purge", "purge2"} =>
            /\ op.loop.reads \in 1..10
            /\ op.loop.res = "pending" => (op.loop.last = "more" /\ op.loop.reads < 10 /\ op.pc = op.loop.kind)
            /\ op.loop.res = "done" => ((op.loop.last \in {"empty", "err"} \/ op.loop.reads = 10) /\ op.pc # op.loop.kind))
    /\ ((op.pc = "purge") ~> (op.pc # "purge"))
    /\ ((op.pc = "purge2") ~> (op.pc # "purge2"))

\* the purge after the reset ended with its tenth read, the device still sending
C22_Witness == op.pc = "eventchar" /\ op.loop.kind = "purge" /\ op.loop.reads = 10 /\ op.loop.last = "more" /\ op.loop.res = "done"

\* C23: a data-read command is written only on a session OpenBitBabbler
\* returned, and such a session exists only after both echoes, 0xAA then 0xAB,
\* were observed within one sync attempt, the last one made.
C23_NoReadBeforeSync == op.readCmds > 0 => (Returned /\ op.sess /\ op.echoes = {CmdAA, CmdAB} /\ "sync" \in op.okSteps /\ op.syncRes # <<>> /\ op.syncRes[Len(op.syncRes)] /\ AttemptCmds(Len(op.syncRes)) = <<<<Len(op.syncRes), CmdAA>>, <<Len(op.syncRes), CmdAB>>>>)

\* a read on a session that was synchronized at the second attempt
C23_Witness == op.readCmds = 1 /\ op.sess /\ op.syncRes = <<FALSE, TRUE>>

EnumerationFailed == ~fn.getOk \/ \E i \in 1..Len(fn.ifaces) : fn.ifaces[i] \in {"enumerr", "detailerr"}

\* C24: IsBitBabblerConnected returns an error exactly when an enumeration
\* call fails, and then false and no list; otherwise its boolean is true
\* exactly when the list is not empty, so that no matching device gives
\* (false, empty list, nil).
C24_EnumerationResult ==
    fn.call = "IsBitBabblerConnected" =>
        /\ fn.res.err # "nil" <=> EnumerationFailed
        /\ fn.res.err # "nil" => (~fn.res.ok /\ fn.res.devices = <<>>)
        /\ fn.res.ok <=> Len(fn.res.devices) > 0
        /\ (~EnumerationFailed /\ ~\E i \in 1..Len(fn.ifaces) : fn.ifaces[i] \in {"hw", "path"}) => (fn.res = [ok |-> FALSE, devices |-> <<>>, err |-> "nil"])
        /\ \A j \in 1..Len(fn.res.devices) : fn.ifaces[fn.res.devices[j]] \in {"hw", "path"}

\* three interfaces were listed, none of them a BitBabbler
C24_Witness == fn.call = "IsBitBabblerConnected" /\ fn.getOk /\ fn.ifaces = <<"other", "nosize", "other">> /\ fn.res = [ok |-> FALSE, devices |-> <<>>, err |-> "nil"]

\* the number of set bits in buf
SetBits(buf) == Cardinality({p \in (1..Len(buf)) \X (0..7) : BitOf(buf[p[1]], p[2]) = 1})

\* C25: for every sample the ones count written to the .csv line is the
\* number of set bits in the bytes written to the .bin file, for every
\* device and every bits value.
C25_CsvOnesMatchBin == fn.call = "sample" => fn.ones = SetBits(fn.bin)

\* the same for the devices whose ReadBits zeroes the low bits
CsvOnesMatchBinPseudoTrng == (fn.call = "sample" /\ fn.dev \in {"pseudo", "trng"}) => fn.ones = SetBits(fn.bin)

ReadsBack ==
    /\ fn.binBits = [err |-> "nil", val |-> fn.bits] /\ fn.csvBits = [err |-> "nil", val |-> fn.bits]
    /\ fn.binInterval = [err |-> "nil", val |-> fn.interval] /\ fn.csvInterval = [err |-> "nil", val |-> fn.interval]

\* C27: for every valid device, bits > 0, interval > 0 and output directory
\* the paths built by BuildBinCSVPaths are read back by findBitCount and
\* findInterval to the same bits and interval.
C27_NamesRoundTrip == (fn.call = "names" /\ fn.paths.err = "nil") => ReadsBack

\* the same for output directories with no underscore in their name
NamesRoundTripPlainDir == (fn.call = "names" /\ fn.paths.err = "nil" /\ ~\E i \in 1..Len(fn.dir) : fn.dir[i] = "_") => ReadsBack

\* BuildBinCSVPaths refuses exactly an unknown device, bits <= 0 and interval <= 0
NamesRejected == fn.call = "names" => (fn.paths.err # "nil" <=> (~Validate(fn.device) \/ fn.bits <= 0 \/ fn.interval <= 0))


\* what holds of truerng.ReadBytes at every moment of a call
ReadBytesSafe ==
    fn.call = "ReadBytes" =>
        /\ fn.pc = "returned" => fn.res \in {"badsize", "notfound", "openerr", "ok", "readerr", "timeout"}
        /\ (fn.pc = "returned" /\ fn.opens = 1) => fn.res \in {"ok", "readerr", "timeout"}
        /\ fn.res = "ok" => (fn.outLen = fn.blockSize /\ fn.total = fn.blockSize)
        /\ fn.res = "timeout" => (fn.now > fn.deadline /\ fn.total < fn.blockSize)
        /\ fn.now <= fn.deadline + ReadTimeoutMs + IdleSleepMs
        /\ fn.pc = "returned" => fn.closes = fn.opens
        /\ fn.pc = "loop" => (fn.opens = 1 /\ fn.closes = 0)

\* C28: truerng.ReadBytes always returns when every serial read honours its
\* 1-second timeout: once the port is open it returns exactly blockSize
\* bytes, a read error, or the timeout error, that one only after the
\* 10-second deadline has passed; the port it opened is closed exactly once
\* on every return.
C28_ReadBytesReturns == [](ReadBytesSafe) /\ ((fn.call = "ReadBytes" /\ fn.pc = "loop") ~> (fn.call = "ReadBytes" /\ fn.pc = "returned"))

\* a call ran into the deadline with a part of the block read, and closed its port
C28_Witness == fn.call = "ReadBytes" /\ fn.pc = "returned" /\ fn.res = "timeout" /\ fn.total = 1 /\ fn.blockSize = 2 /\ fn.now > OverallDeadlineMs /\ fn.closes = 1


(***************************************************************************)
(* Properties of the session of a StartBitCollector run.                   *)
(***************************************************************************)
\* C31: during a StartBitCollector run at most one ReadRandom is in flight
\* on the session, no read is called on a closed session, and the session
\* is closed only when no read is in flight.
C31_OneReadInFlight ==
    co.kind = "bbusb" =>
        /\ co.inFlight <= 1
        /\ co.inFlight = 1 <=> co.pc = "reading"
        /\ co.readsOnClosed = 0
        /\ ~co.closedWithRead
        /\ co.inFlight > 0 => co.sessOpen

\* the goroutine made two reads, was cancelled and closed its session
C31_Witness == co.kind = "bbusb" /\ co.pc = "done" /\ co.reads = 2 /\ co.cancelled /\ co.sessCloses = 1 /\ ~co.sessOpen /\ co.inFlight = 0


(***************************************************************************)
(* Properties of the extraction of ReadRandom.                             *)
(***************************************************************************)
\* the index in a chunk of its j-th payload byte, when the chunk is cut at
\* every maxPacket bytes and each piece begins with 2 status bytes
NthPayloadIndex(j, maxPacket) == ((j - 1) \div (maxPacket - 2)) * maxPacket + 2 + ((j - 1) % (maxPacket - 2)) + 1

\* the number of payload bytes of a chunk of m bytes: a piece of 2 bytes or
\* fewer has none
PayloadIn(m, maxPacket) == Cardinality({i \in 1..m : (i - 1) % maxPacket >= 2})

\* C32: a pass of ReadRandom's loop leaves 0 <= got <= len(buf); it places
\* the chunk's payload bytes in order behind those already placed, as many
\* as the buffer has room for and no more, and changes nothing else; a chunk
\* of 2 bytes or fewer, and a trailing piece of 2 bytes or fewer, place nothing.
C32_GotWithinBuffer ==
    fn.call = "extract" =>
        LET k == Min(fn.n - fn.got, PayloadIn(Len(fn.tmp), fn.maxPacket))
        IN  /\ fn.res.got = fn.got + k
            /\ 0 <= fn.res.got /\ fn.res.got <= fn.n
            /\ Len(fn.res.buf) = fn.n
            /\ \A i \in 1..fn.n : fn.res.buf[i] = IF i <= fn.got \/ i > fn.got + k THEN fn.buf[i] ELSE fn.tmp[NthPayloadIndex(i - fn.got, fn.maxPacket)]
            /\ Len(fn.tmp) <= 2 => (fn.res.got = fn.got /\ fn.res.buf = fn.buf)

\* a chunk with three payload bytes and a buffer with room for one
C32_Witness == fn.call = "extract" /\ fn.n = 2 /\ fn.got = 1 /\ fn.maxPacket = 4 /\ Len(fn.tmp) = 7 /\ fn.res.got = 2 /\ fn.res.buf = <<1, 103>>

\* what the claim asks of ReadRandom at this moment: the bytes placed are the
\* first payload bytes in device order, and once the device has handed over
\* all n of them ReadRandom has returned n and the buffer holds them
ExtractionRight ==
    /\ rr.err = "nil" => (rr.got <= rr.n /\ SubSeq(rr.buf, 1, rr.got) = SubSeq(rr.payload, 1, rr.got))
    /\ (rr.pc = "returned" /\ rr.err = "nil") => (rr.got = rr.n /\ rr.buf = SubSeq(rr.payload, 1, rr.n))
    /\ (rr.pc = "reading" /\ rr.err = "nil") => rr.wire # <<>>

\* C33 as stated: when every bulk read returns whole packets from a packet
\* boundary on, each of 2 status bytes and up to maxPacket - 2 payload bytes,
\* ReadRandom ends once the device has supplied n payload bytes, with the
\* buffer equal to the first n payload bytes in device order.
C33_WholePacketsExtraction == (rr.pc # "idle" /\ rr.aligned) => ExtractionRight

\* C33 for bulk reads that are USB transfers: whole packets from a packet
\* boundary on, of which only the last one of a read is shorter than maxPacket.
C33_TransfersExtraction == (rr.pc # "idle" /\ rr.transfers) => ExtractionRight

\* three payload bytes came in two reads, a full packet and a short one
C33_Witness == rr.pc = "returned" /\ rr.err = "nil" /\ rr.transfers /\ rr.n = 3 /\ rr.reads = 2 /\ rr.sizes = <<2, 1>> /\ rr.buf = rr.payload


(***************************************************************************)
(* Properties of readBinFile (SpecBin).                                    *)
(***************************************************************************)
\* the rows of a file cut into blocks of b bytes, the last one maybe partial
ExpectedRows(file, b) == [k \in 1..((Len(file) + b - 1) \div b) |-> [Category |-> Itoa(k), Ones |-> SetBits(SubSeq(file, (k - 1) * b + 1, Min(k * b, Len(file))))]]

\* C34: for a block size that is a positive multiple of 8 bits readBinFile
\* returns one row per block of blockSize/8 bytes, in file order, numbered
\* from 1, with a last row for a partial block: ceil(fileLength /
\* bytesPerBlock) rows, each with the set bits of its block, however the
\* buffered reader splits its reads.
C34_RowsPerBlock == (fn.call = "readBinFile" /\ fn.pc = "returned" /\ fn.err = "nil" /\ ~fn.readFailed) => fn.rows = ExpectedRows(fn.file, fn.bytesPerBlock)

\* the same when no read came short before the end of the file
RowsPerBlockFullReads == (fn.call = "readBinFile" /\ fn.pc = "returned" /\ fn.err = "nil" /\ ~fn.readFailed /\ fn.shortReads = 0) => fn.rows = ExpectedRows(fn.file, fn.bytesPerBlock)

\* the reader comes short before the end of the file only when the block
\* neither divides its buffer nor is as large as it
ShortReadsOnlyOddBlocks == (fn.call = "readBinFile" /\ fn.shortReads > 0) => (fn.bytesPerBlock < ModelBufSize /\ ModelBufSize % fn.bytesPerBlock # 0)

\* block sizes that are not a positive multiple of 8 are refused
BlockSizeChecked == fn.call = "readBinFile" => (fn.err \in {"notmultiple", "invalid"} <=> (fn.blockSize % 8 # 0 \/ fn.blockSize <= 0))


(***************************************************************************)
(* Properties of the collect CLI's files (SpecCli).                        *)
(***************************************************************************)
\* what the claim asks after the cycles completed so far: k batches in .bin
\* and k lines in .csv for the sample number k printed last; batch j in
\* .bin when line j was written and when read j + 1 was issued
FilesInStep ==
    /\ fn.printed = fn.sampleNum \/ fn.ret = "fatal"
    /\ fn.ret # "fatal" => (fn.bin.file = fn.printed * fn.byteCount /\ fn.csv.file = fn.printed)
    /\ \A j \in 1..Len(fn.binAtLine) : fn.binAtLine[j] = j * fn.byteCount
    /\ \A j \in 1..Len(fn.filesAtRead) : fn.filesAtRead[j] = <<(j - 1) * fn.byteCount, j - 1>>
    /\ fn.ret = "readerr" => (fn.bin.file = fn.printed * fn.byteCount /\ fn.csv.file = fn.printed /\ Len(fn.filesAtRead) = fn.printed + 1)

\* C35: after every completed cycle of the collect CLI .bin holds exactly k
\* batches of ceil(bits/8) bytes and .csv exactly k lines, k being the sample
\* number printed; batch k is in .bin before line k is written and before
\* read k + 1 is issued; a read error stops the loop with nothing written for
\* that cycle.
C35_FilesInStep == fn.call = "collect" => FilesInStep

\* the same as long as every write to the disk succeeded
FilesInStepWhileDiskWorks == (fn.call = "collect" /\ ~fn.diskFailed) => FilesInStep


(***************************************************************************)
(* Properties of countOnes (SpecOnes) and of the TrueRNG port search       *)
(* (SpecPorts).                                                            *)
(***************************************************************************)
\* the set bits among the first bitCount bits of buf, taken from the most
\* significant bit of each byte on
FirstBitsSet(buf, bitCount) == Cardinality({p \in (1..Len(buf)) \X (0..7) : 8 * (p[1] - 1) + (7 - p[2]) < bitCount /\ BitOf(buf[p[1]], p[2]) = 1})

\* what the claim asks of a call of countOnes
CountsFirstBits ==
    /\ ~fn.panics
    /\ fn.ones = FirstBitsSet(fn.buf, fn.bitCount)
    /\ 0 <= fn.ones
    /\ fn.bitCount > 0 => fn.ones <= Min(fn.bitCount, 8 * Len(fn.buf))
    /\ (fn.bitCount <= 0 \/ fn.buf = <<>>) => fn.ones = 0

\* C36: countOnes(buf, bitCount) counts the set bits among the first
\* bitCount bits of buf, most significant bit first; its result is between 0
\* and min(bitCount, 8 * len(buf)), and 0 when bitCount <= 0 or buf is empty.
C36_CountsFirstBits == fn.call = "countOnes" => CountsFirstBits

\* the same for a buffer that holds all bitCount bits
CountsFirstBitsOfWholeBatch == (fn.call = "countOnes" /\ fn.bitCount <= 8 * Len(fn.buf)) => CountsFirstBits

\* countOnes panics exactly on a buffer of fewer than bitCount bits
PanicsOnShortBuffer == fn.call = "countOnes" => (fn.panics <=> (fn.buf # <<>> /\ fn.bitCount > 8 * Len(fn.buf)))

\* C37: whenever truerng.Detect reports a device present for a list of
\* serial ports, truerng.FindPort on the same list returns a port name and
\* no not-found error.
C37_DetectImpliesFindPort == (fn.call = "ports" /\ fn.detect.present) => (fn.find.err = "nil" /\ fn.find.name # <<>>)

\* the same when every port with the prefix has a name
DetectImpliesFindPortWhenNamed == (fn.call = "ports" /\ fn.detect.present /\ \A i \in 1..Len(fn.ports) : HasTrueRNGPrefix(fn.ports[i]) => fn.ports[i].Name # <<>>) => (fn.find.err = "nil" /\ fn.find.name # <<>>)

\* a port found by FindPort is a device Detect reports
FindPortImpliesDetect == (fn.call = "ports" /\ fn.find.err = "nil") => fn.detect.present


(***************************************************************************)
(* Properties of ReadBitsOnce (SpecOnce) and of the names (SpecNames).     *)
(***************************************************************************)
\* C38: a call of ReadBitsOnce that opens a session makes exactly one
\* ReadRandom on it and has closed it when it returns, on success and on a
\* failed read alike; over a sequence of calls at most one session is open
\* at any moment and none once the last call has returned.
C38_OneSessionAtATime ==
    fn.call = "ReadBitsOnce" =>
        /\ fn.open <= 1
        /\ fn.open = fn.opens - fn.closes
        /\ fn.pc = "returned" => (fn.open = 0 /\ fn.opens = fn.closes)
        /\ fn.pc = "reading" => (fn.open = 1 /\ fn.reads = 1)
        /\ fn.pc = "returned" => fn.reads = (IF fn.rets[Len(fn.rets)] \in {"ok", "readerr"} THEN 1 ELSE 0)
        /\ fn.closes = Cardinality({i \in 1..Len(fn.rets) : fn.rets[i] \in {"ok", "readerr"}})

\* three calls have returned: a read, a failed read, a read
C38_Witness == fn.call = "ReadBitsOnce" /\ fn.pc = "returned" /\ fn.rets = <<"ok", "readerr", "ok">> /\ fn.opens = 3 /\ fn.closes = 3 /\ fn.open = 0

\* the number of dots in a name
Dots(name) == Cardinality({i \in 1..Len(name) : name[i] = "."})

\* the base name reads as <timestamp>_<device>_s<bits>_i<interval>: 8 digits
\* of the date, T, 6 digits of the time, and the three fields in decimal
BaseNameReads(name, now, device, bits, interval) ==
    LET d == Len(device)
        sEnd == DigitRunEnd(name, 19 + d)
    IN  /\ Atoi(SubSeq(name, 1, 4)) = now.year /\ Atoi(SubSeq(name, 5, 6)) = now.month /\ Atoi(SubSeq(name, 7, 8)) = now.day
        /\ name[9] = "T"
        /\ Atoi(SubSeq(name, 10, 11)) = now.hour /\ Atoi(SubSeq(name, 12, 13)) = now.min /\ Atoi(SubSeq(name, 14, 15)) = now.sec
        /\ \A i \in (1..15) \ {9} : IsDigit(name[i])
        /\ name[16] = "_" /\ SubSeq(name, 17, 16 + d) = device
        /\ SubSeq(name, 17 + d, 18 + d) = <<"_", "s">>
        /\ sEnd >= 19 + d /\ Atoi(SubSeq(name, 19 + d, sEnd)) = bits /\ name[19 + d] # "0"
        /\ SubSeq(name, sEnd + 1, sEnd + 2) = <<"_", "i">>
        /\ DigitRunEnd(name, sEnd + 3) = Len(name) /\ Len(name) >= sEnd + 3
        /\ Atoi(SubSeq(name, sEnd + 3, Len(name))) = interval /\ name[sEnd + 3] # "0"

\* C39: BuildBaseName returns an error and an empty name for a device other
\* than trng, bitb and pseudo, for bits <= 0 and for intervalSeconds <= 0;
\* otherwise the name <timestamp>_<device>_s<bits>_i<interval>, and
\* BuildBinCSVNames that base with .bin and with .csv, one dot each.
C39_BaseNameAndExtensions ==
    fn.call = "names" =>
        IF fn.device \notin {<<"t", "r", "n", "g">>, <<"b", "i", "t", "b">>, <<"p", "s", "e", "u", "d", "o">>} \/ fn.bits <= 0 \/ fn.interval <= 0
        THEN fn.base.err # "nil" /\ fn.base.name = <<>> /\ fn.names.err # "nil" /\ fn.names.bin = <<>> /\ fn.names.csv = <<>>
        ELSE /\ fn.base.err = "nil" /\ BaseNameReads(fn.base.name, fn.now, fn.device, fn.bits, fn.interval)
             /\ fn.names.err = "nil"
             /\ fn.names.bin = fn.base.name \o <<".", "b", "i", "n">> /\ fn.names.csv = fn.base.name \o <<".", "c", "s", "v">>
             /\ Dots(fn.names.bin) = 1 /\ Dots(fn.names.csv) = 1

\* names were built for 2048 bits of the BitBabbler every 10 seconds
C39_Witness == fn.call = "names" /\ fn.device = <<"b", "i", "t", "b">> /\ fn.bits = 2048 /\ fn.interval = 10 /\ fn.base.err = "nil" /\ Len(fn.base.name) = 30 /\ Len(fn.names.bin) = 34


=============================================================================
